---- MODULE Spec2Model ----
(***************************************************************************)
(* A model of the neurousers identity service: Telegram login assertion    *)
(* verification, JWT session tokens, administrative impersonation and the  *)
(* internal sync endpoints (routers/auth.py, routers/admin.py,             *)
(* models/orm.py).                                                         *)
(*                                                                         *)
(* Conventions.  A Python Optional is a set: None is {} and a present      *)
(* value v is {v}.  A Python str whose characters matter (a check string,  *)
(* a JWT "sub", a Telegram hash) is a sequence of one-character strings.   *)
(***************************************************************************)
EXTENDS Integers, Sequences, FiniteSets, TLC

None == {}
Some(v) == {v}
The(o) == CHOOSE v \in o : TRUE

(***************************************************************************)
(* Bounds of the model.                                                    *)
(***************************************************************************)
\* the wall clock at the start of a behaviour (seconds)
StartTime == 100000
\* how many concurrent internal/admin balance requests are in flight
NumCalls == 2

(***************************************************************************)
(* str(int) and int(str).                                                  *)
(***************************************************************************)
DigitChars == <<"0", "1", "2", "3", "4", "5", "6", "7", "8", "9">>

RECURSIVE IntToStr(_)
IntToStr(n) ==
    IF n < 0 THEN <<"-">> \o IntToStr(0 - n)
    ELSE IF n < 10 THEN <<DigitChars[n + 1]>>
    ELSE IntToStr(n \div 10) \o <<DigitChars[(n % 10) + 1]>>

IsDigit(c) == \E d \in 1..10 : DigitChars[d] = c
DigitValue(c) == (CHOOSE d \in 1..10 : DigitChars[d] = c) - 1

RECURSIVE DigitsToInt(_, _)
DigitsToInt(s, acc) ==
    IF s = <<>> THEN acc
    ELSE DigitsToInt(Tail(s), acc * 10 + DigitValue(Head(s)))

\* int(s): None stands for the ValueError of a string that is no decimal number
StrToInt(s) ==
    LET body == IF s # <<>> /\ Head(s) = "-" THEN Tail(s) ELSE s
    IN  IF body = <<>> \/ \E i \in 1..Len(body) : ~IsDigit(body[i])
        THEN None
        ELSE IF s[1] = "-" THEN Some(0 - DigitsToInt(body, 0))
             ELSE Some(DigitsToInt(body, 0))

(***************************************************************************)
(* validate_telegram_data: the canonical check string and its HMAC.        *)
(***************************************************************************)
\* seconds a Telegram assertion stays valid
MaxAuthAge == 86400

\* the keys of UserLoginIn.model_dump() once "hash" and "invite_ref_code"
\* are popped, in declaration order
DataKeys == <<"id", "auth_date", "first_name", "last_name", "username", "photo_url">>
IntKeys == {"id", "auth_date"}

KeyChars(k) ==
    CASE k = "id" -> <<"i", "d">>
      [] k = "auth_date" -> <<"a", "u", "t", "h", "_", "d", "a", "t", "e">>
      [] k = "first_name" -> <<"f", "i", "r", "s", "t", "_", "n", "a", "m", "e">>
      [] k = "last_name" -> <<"l", "a", "s", "t", "_", "n", "a", "m", "e">>
      [] k = "username" -> <<"u", "s", "e", "r", "n", "a", "m", "e">>
      [] k = "photo_url" -> <<"p", "h", "o", "t", "o", "_", "u", "r", "l">>

\* the code points of the characters of the keys, in ASCII order
KeyAlphabet == <<"_", "a", "b", "c", "d", "e", "f", "g", "h", "i", "j", "k", "l", "m",
                 "n", "o", "p", "q", "r", "s", "t", "u", "v", "w", "x", "y", "z">>
Ord(c) == CHOOSE i \in 1..Len(KeyAlphabet) : KeyAlphabet[i] = c

\* Python's a < b on two strings
RECURSIVE StrLess(_, _)
StrLess(a, b) ==
    IF b = <<>> THEN FALSE
    ELSE IF a = <<>> THEN TRUE
    ELSE IF Head(a) = Head(b) THEN StrLess(Tail(a), Tail(b))
    ELSE Ord(Head(a)) < Ord(Head(b))

RECURSIVE InsertKey(_, _)
InsertKey(k, sorted) ==
    IF sorted = <<>> THEN <<k>>
    ELSE IF StrLess(KeyChars(k), KeyChars(Head(sorted))) THEN <<k>> \o sorted
    ELSE <<Head(sorted)>> \o InsertKey(k, Tail(sorted))

\* sorted(data.items()): the keys are distinct, so the items sort by key
RECURSIVE SortedKeys(_)
SortedKeys(keys) ==
    IF keys = <<>> THEN <<>>
    ELSE InsertKey(Head(keys), SortedKeys(Tail(keys)))

\* "if v": None, 0 and "" are falsy
Truthy(data, k) ==
    /\ data[k] # None
    /\ IF k \in IntKeys THEN The(data[k]) # 0 ELSE The(data[k]) # <<>>

\* f"{k}={v}"
FormatItem(data, k) ==
    KeyChars(k) \o <<"=">> \o
        (IF k \in IntKeys THEN IntToStr(The(data[k])) ELSE The(data[k]))

RECURSIVE JoinLines(_)
JoinLines(items) ==
    IF items = <<>> THEN <<>>
    ELSE IF Len(items) = 1 THEN Head(items)
    ELSE Head(items) \o <<"\n">> \o JoinLines(Tail(items))

RECURSIVE TruthyItems(_, _)
TruthyItems(data, keys) ==
    IF keys = <<>> THEN <<>>
    ELSE (IF Truthy(data, Head(keys)) THEN <<FormatItem(data, Head(keys))>> ELSE <<>>)
            \o TruthyItems(data, Tail(keys))

DataCheckString(data) == JoinLines(TruthyItems(data, SortedKeys(DataKeys)))

\* config.api.bot.token, and the digests as keyed functions of their input:
\* sha256(token).digest() and hmac.new(key, msg, sha256).hexdigest()
BotToken == <<"b", "o", "t">>
Sha256(s) == <<"#">> \o s
HmacHex(key, msg) == <<"%">> \o key \o <<"%">> \o msg

GeneratedHash(data) == HmacHex(Sha256(BotToken), DataCheckString(data))

\* (mutant) the received hash is not compared
ValidateTelegramData_NoCompare(data, t) ==
    IF data.hash = None \/ data.hash = Some(<<>>) THEN "no_hash"
    ELSE IF data.auth_date = None \/ t - The(data.auth_date) > MaxAuthAge THEN "expired"
    ELSE "ok"

\* (mutant) the age of the assertion is not looked at
ValidateTelegramData_NoExpiry(data, t) ==
    IF data.hash = None \/ data.hash = Some(<<>>) THEN "no_hash"
    ELSE IF GeneratedHash(data) # The(data.hash) THEN "mismatch"
    ELSE "ok"

\* the outcome of validate_telegram_data(data) at time t: "ok", or the
\* detail of the HTTPException(400) it raises
ValidateTelegramData(data, t) ==
    IF data.hash = None \/ data.hash = Some(<<>>) THEN "no_hash"
    ELSE IF data.auth_date = None \/ t - The(data.auth_date) > MaxAuthAge THEN "expired"
    ELSE IF GeneratedHash(data) # The(data.hash) THEN "mismatch"
    ELSE "ok"

(***************************************************************************)
(* State.                                                                  *)
(***************************************************************************)
VARIABLES
    config,   \* the deployment's config.yml: api.url, internal.user_sync_token
    users,    \* the "users" table: a function from the ids that exist to rows
    now,      \* the wall clock, in seconds
    issued,   \* every token the service has signed so far
    resp,     \* the request handled last, with its response
    calls,    \* the balance requests in flight, each at one of its awaits
    tg        \* a Telegram assertion on its way from the widget to /auth

vars == <<config, users, now, issued, resp, calls, tg>>

(***************************************************************************)
(* models/orm.py                                                           *)
(***************************************************************************)
RoleUser == 0
RoleAdmin == 7

\* the row User.create(id=...) inserts when only `fields` are given
NewUser(fields) ==
    [k \in {"username", "first_name", "last_name", "photo_url", "license_end_date",
            "ref_code", "referred_by", "or_api_key", "or_api_hash", "or_model",
            "role", "balance"} |->
        IF k \in DOMAIN fields THEN fields[k]
        ELSE IF k = "role" THEN RoleUser
        ELSE IF k = "balance" THEN 0
        ELSE None]

\* QuerySet.update(**fields) on one row
UpdateRow(row, fields) ==
    [k \in DOMAIN row |-> IF k \in DOMAIN fields THEN fields[k] ELSE row[k]]

\* User.get_or_none(username=name): MultipleObjectsReturned when several match
GetByUsername(us, name) ==
    LET hits == {i \in DOMAIN us : us[i].username = Some(name)}
    IN  IF hits = {} THEN [found |-> "none", id |-> None]
        ELSE IF Cardinality(hits) = 1 THEN [found |-> "one", id |-> hits]
        ELSE [found |-> "multiple", id |-> None]

\* User.get_or_none(ref_code=code): ref_code is UNIQUE
GetByRefCode(us, code) ==
    LET hits == {i \in DOMAIN us : us[i].ref_code = Some(code)}
    IN  IF Cardinality(hits) = 1 THEN hits ELSE None

(***************************************************************************)
(* The token codec: create_access_token, create_refresh_token,             *)
(* create_impersonation_tokens, decode_token.                              *)
(***************************************************************************)
\* config.api.jwt
JwtSecret == "jwt-secret"
JwtAlgorithm == "HS256"
ExpireSeconds == 60
RefreshExpireDays == 1
SecondsPerDay == 86400

\* jwt.encode(claims + exp, secret, algorithm)
JwtEncode(claims, exp, key, alg) ==
    [sub |-> claims.sub, real_sub |-> claims.real_sub,
     impersonated |-> claims.impersonated, exp |-> exp, alg |-> alg, key |-> key]

PlainClaims(id) == [sub |-> IntToStr(id), real_sub |-> None, impersonated |-> FALSE]

\* (mutant) the two ids change places
ImpersonationClaims_Swapped(target_user_id, admin_id) ==
    [sub |-> IntToStr(admin_id), real_sub |-> Some(IntToStr(target_user_id)),
     impersonated |-> TRUE]

ImpersonationClaims(target_user_id, admin_id) ==
    [sub |-> IntToStr(target_user_id), real_sub |-> Some(IntToStr(admin_id)),
     impersonated |-> TRUE]

\* (mutant) access tokens are signed with a key of their own
CreateAccessToken_OwnKey(claims, t) ==
    JwtEncode(claims, t + ExpireSeconds, "access-secret", JwtAlgorithm)

\* (mutant) the access token is given the refresh token's lifetime
CreateAccessToken_RefreshLifetime(claims, t) ==
    JwtEncode(claims, t + RefreshExpireDays * SecondsPerDay, JwtSecret, JwtAlgorithm)

CreateAccessToken(claims, t) ==
    JwtEncode(claims, t + ExpireSeconds, JwtSecret, JwtAlgorithm)

CreateRefreshToken(claims, t) ==
    JwtEncode(claims, t + RefreshExpireDays * SecondsPerDay, JwtSecret, JwtAlgorithm)

\* (mutant) the refresh token of the pair is the administrator's plain one
CreateImpersonationTokens_PlainRefresh(target_user_id, admin_id, t) ==
    <<CreateAccessToken(ImpersonationClaims(target_user_id, admin_id), t),
      CreateRefreshToken(PlainClaims(admin_id), t)>>

\* <<access, refresh>>
CreateImpersonationTokens(target_user_id, admin_id, t) ==
    <<CreateAccessToken(ImpersonationClaims(target_user_id, admin_id), t),
      CreateRefreshToken(ImpersonationClaims(target_user_id, admin_id), t)>>

\* (mutant) the expiry is not verified
DecodeToken_NoExpiry(token, t) ==
    IF token.key # JwtSecret \/ token.alg # JwtAlgorithm
    THEN [status |-> 401, detail |-> "Invalid token"]
    ELSE [status |-> 200, detail |-> "ok"]

\* (mutant) the expiry is looked at before the signature
DecodeToken_ExpiryFirst(token, t) ==
    IF token.exp < t
    THEN [status |-> 401, detail |-> "Token expired"]
    ELSE IF token.key # JwtSecret \/ token.alg # JwtAlgorithm
    THEN [status |-> 401, detail |-> "Invalid token"]
    ELSE [status |-> 200, detail |-> "ok"]

\* decode_token: the signature and the algorithm first, then the expiry
DecodeToken(token, t) ==
    IF token.key # JwtSecret \/ token.alg # JwtAlgorithm
    THEN [status |-> 401, detail |-> "Invalid token"]
    ELSE IF token.exp < t
    THEN [status |-> 401, detail |-> "Token expired"]
    ELSE [status |-> 200, detail |-> "ok"]

\* payload.get("impersonated") and payload.get("real_sub")
IsDelegated(token) ==
    token.impersonated /\ token.real_sub # None /\ token.real_sub # Some(<<>>)

(***************************************************************************)
(* The dependencies: get_current_user, get_real_user, admin_required,      *)
(* internal_sync_required.                                                 *)
(***************************************************************************)
\* an Authorization header is None or [scheme, token]; FastAPI answers 422
\* for a required header that is missing
ResolveUser(authorization, us, t, real) ==
    IF authorization = None
    THEN [status |-> 422, detail |-> "Field required", id |-> None]
    ELSE IF The(authorization).scheme # "Bearer"
    THEN [status |-> 401, detail |-> "Authorization header missing or invalid", id |-> None]
    ELSE LET token == The(authorization).token
             dec == DecodeToken(token, t)
             user_id_raw == IF real /\ IsDelegated(token) THEN The(token.real_sub)
                            ELSE token.sub
         IN  IF dec.status # 200 THEN [status |-> 401, detail |-> dec.detail, id |-> None]
             ELSE IF user_id_raw = <<>>
             THEN [status |-> 401, detail |-> "Invalid token", id |-> None]
             ELSE IF StrToInt(user_id_raw) = None
             THEN [status |-> 500, detail |-> "ValueError", id |-> None]
             ELSE IF The(StrToInt(user_id_raw)) \notin DOMAIN us
             THEN [status |-> 404, detail |-> "User not found", id |-> None]
             ELSE [status |-> 200, detail |-> "ok", id |-> StrToInt(user_id_raw)]

GetCurrentUser(authorization, us, t) == ResolveUser(authorization, us, t, FALSE)

\* (mutant) the real subject of a delegated token is ignored
GetRealUser_ActingAs(authorization, us, t) == ResolveUser(authorization, us, t, FALSE)

GetRealUser(authorization, us, t) == ResolveUser(authorization, us, t, TRUE)

\* (mutant) the role is not looked at
AdminRequired_NoRoleCheck(authorization, us, t) == GetRealUser(authorization, us, t)

AdminRequired(authorization, us, t) ==
    LET user == GetRealUser(authorization, us, t)
    IN  IF user.status # 200 THEN user
        ELSE IF us[The(user.id)].role # RoleAdmin
        THEN [status |-> 403, detail |-> "Admin only", id |-> None]
        ELSE user

\* a header value is the sequence of the code points of its characters;
\* hmac.compare_digest raises TypeError for a str that is not ASCII
IsAscii(s) == \A i \in 1..Len(s) : s[i] < 128

\* (mutant) the header only has to be present
InternalSyncRequired_AnyToken(x_internal_token, cfg) ==
    IF cfg.user_sync_token = None
    THEN [status |-> 503, detail |-> "User sync token is not configured"]
    ELSE IF x_internal_token = None \/ x_internal_token = Some(<<>>)
    THEN [status |-> 401, detail |-> "Invalid internal token"]
    ELSE [status |-> 200, detail |-> "ok"]

InternalSyncRequired(x_internal_token, cfg) ==
    IF cfg.user_sync_token = None
    THEN [status |-> 503, detail |-> "User sync token is not configured"]
    ELSE IF x_internal_token = None \/ x_internal_token = Some(<<>>)
    THEN [status |-> 401, detail |-> "Invalid internal token"]
    ELSE IF ~IsAscii(The(x_internal_token)) \/ ~IsAscii(The(cfg.user_sync_token))
    THEN [status |-> 500, detail |-> "TypeError"]
    ELSE IF x_internal_token # cfg.user_sync_token
    THEN [status |-> 401, detail |-> "Invalid internal token"]
    ELSE [status |-> 200, detail |-> "ok"]

(***************************************************************************)
(* Responses.  resp.req is the request as received; access and set_cookie  *)
(* are the tokens of the response body and of its Set-Cookie header.       *)
(***************************************************************************)
Response(op, req, status, detail, access, set_cookie, cleared) ==
    [op |-> op, req |-> req, status |-> status, detail |-> detail,
     access |-> access, set_cookie |-> set_cookie, cleared |-> cleared]

Reply(op, req, status, detail) ==
    Response(op, req, status, detail, None, None, FALSE)

NoRequest == Reply("none", <<>>, 0, "")

(***************************************************************************)
(* routers/auth.py: login                                                  *)
(***************************************************************************)
DEV_MOCK_USER_ID == 359107176
DEV_MOCK_HASH == <<"m", "o", "c", "k">>

\* config.api.url is None or a sequence of the parts of a URL
Lower(part) ==
    CASE part = "LOCALHOST" -> "localhost"
      [] OTHER -> part

IsLocalDevEnv(cfg) ==
    LET url == IF cfg.api_url = None THEN <<>> ELSE The(cfg.api_url)
    IN  \E i \in 1..Len(url) : Lower(url[i]) \in {"localhost", "127.0.0.1"}

\* the number of candidates create_unique_ref_code draws
RefCodeAttempts == 10

\* create_unique_ref_code with `draws` the codes generate_ref_code returns, in
\* order; None stands for its RuntimeError
RECURSIVE FirstFreeCode(_, _)
FirstFreeCode(us, draws) ==
    IF draws = <<>> THEN None
    ELSE IF \A i \in DOMAIN us : us[i].ref_code # Some(Head(draws)) THEN Some(Head(draws))
    ELSE FirstFreeCode(us, Tail(draws))

CreateUniqueRefCode(us, draws) == FirstFreeCode(us, SubSeq(draws, 1, RefCodeAttempts))

\* (mutant) a field the payload leaves null is not written
Profile_SkipNulls(data) ==
    [k \in {f \in {"username", "first_name", "last_name", "photo_url"} : data[f] # None}
        |-> data[k]]

\* (mutant) the profile login writes carries the default role
Profile_WithRole(data) ==
    [username |-> data.username, first_name |-> data.first_name,
     last_name |-> data.last_name, photo_url |-> data.photo_url, role |-> RoleUser]

Profile(data) ==
    [username |-> data.username, first_name |-> data.first_name,
     last_name |-> data.last_name, photo_url |-> data.photo_url]

WithRow(us, id, row) == [i \in DOMAIN us \cup {id} |-> IF i = id THEN row ELSE us[i]]

\* (mutant) the comparison of the two ids never finds them equal
SameAccount_Never(referrer, id) == FALSE

\* referrer.id == data.id
SameAccount(referrer, id) == referrer = Some(id)

\* the referrer login resolves from invite_ref_code
LoginReferrer(us, id, invite_ref_code) ==
    LET referrer == IF invite_ref_code = None \/ invite_ref_code = Some("") THEN None
                    ELSE GetByRefCode(us, The(invite_ref_code))
    IN  IF SameAccount(referrer, id) THEN None ELSE referrer

\* (mutant) a first login goes on to the tokens when no code could be
\* allocated and no row was stored
LoginUpsert_PastExhaustion(us, data, invite_ref_code, draws) ==
    LET id == The(data.id)
        referrer == LoginReferrer(us, id, invite_ref_code)
    IN  IF id \notin DOMAIN us
        THEN LET code == CreateUniqueRefCode(us, draws)
             IN  IF code = None THEN [users |-> us, ok |-> TRUE]
                 ELSE [users |-> WithRow(us, id,
                                   NewUser(Profile(data) @@ [ref_code |-> code,
                                                             referred_by |-> referrer])),
                       ok |-> TRUE]
        ELSE LET user == us[id]
                 synced == WithRow(us, id, UpdateRow(user, Profile(data)))
                 no_code == user.ref_code = None \/ user.ref_code = Some("")
                 code == CreateUniqueRefCode(synced, draws)
                 coded == IF no_code THEN WithRow(synced, id, UpdateRow(synced[id], [ref_code |-> code]))
                          ELSE synced
                 link == /\ user.referred_by = None
                         /\ referrer # None
                         /\ user.license_end_date = None
                         /\ referrer # Some(id)
                 linked == IF link THEN WithRow(coded, id, UpdateRow(coded[id], [referred_by |-> referrer]))
                           ELSE coded
             IN  IF no_code /\ code = None THEN [users |-> synced, ok |-> FALSE]
                 ELSE [users |-> linked, ok |-> TRUE]

\* what login does to the table once the assertion is accepted: the table
\* it leaves, and whether it got as far as issuing tokens
LoginUpsert(us, data, invite_ref_code, draws) ==
    LET id == The(data.id)
        referrer == LoginReferrer(us, id, invite_ref_code)
    IN  IF id \notin DOMAIN us
        THEN LET code == CreateUniqueRefCode(us, draws)
             IN  IF code = None THEN [users |-> us, ok |-> FALSE]
                 ELSE [users |-> WithRow(us, id,
                                   NewUser(Profile(data) @@ [ref_code |-> code,
                                                             referred_by |-> referrer])),
                       ok |-> TRUE]
        ELSE LET user == us[id]
                 synced == WithRow(us, id, UpdateRow(user, Profile(data)))
                 no_code == user.ref_code = None \/ user.ref_code = Some("")
                 code == CreateUniqueRefCode(synced, draws)
                 coded == IF no_code THEN WithRow(synced, id, UpdateRow(synced[id], [ref_code |-> code]))
                          ELSE synced
                 link == /\ user.referred_by = None
                         /\ referrer # None
                         /\ user.license_end_date = None
                         /\ referrer # Some(id)
                 linked == IF link THEN WithRow(coded, id, UpdateRow(coded[id], [referred_by |-> referrer]))
                           ELSE coded
             IN  IF no_code /\ code = None THEN [users |-> synced, ok |-> FALSE]
                 ELSE [users |-> linked, ok |-> TRUE]

\* (mutant) the bypass is not tied to the local environment
IsDevBypass_AnyEnv(cfg, data) ==
    data.hash = Some(DEV_MOCK_HASH) /\ data.id = Some(DEV_MOCK_USER_ID)

\* the local-only bypass of the Telegram check
IsDevBypass(cfg, data) ==
    /\ IsLocalDevEnv(cfg)
    /\ data.hash = Some(DEV_MOCK_HASH)
    /\ data.id = Some(DEV_MOCK_USER_ID)

LoginTokens(id, t) ==
    <<CreateAccessToken(PlainClaims(id), t), CreateRefreshToken(PlainClaims(id), t)>>

Login(data, invite_ref_code, draws) ==
    LET req == [data |-> data, invite_ref_code |-> invite_ref_code]
        checked == ValidateTelegramData(data, now)
        upsert == LoginUpsert(users, data, invite_ref_code, draws)
        id == IF IsDevBypass(config, data) THEN DEV_MOCK_USER_ID ELSE The(data.id)
        tokens == LoginTokens(id, now)
    IN  /\ IF IsDevBypass(config, data)
           THEN /\ users' = users
                /\ issued' = issued \cup {tokens[1], tokens[2]}
                /\ resp' = Response("login", req, 200, "ok", Some(tokens[1]), Some(tokens[2]), FALSE)
           ELSE IF checked # "ok"
           THEN /\ users' = users
                /\ issued' = issued
                /\ resp' = Reply("login", req, 400, checked)
           ELSE IF ~upsert.ok
           THEN /\ users' = upsert.users
                /\ issued' = issued
                /\ resp' = Reply("login", req, 500, "Failed to generate unique ref_code")
           ELSE /\ users' = upsert.users
                /\ issued' = issued \cup {tokens[1], tokens[2]}
                /\ resp' = Response("login", req, 200, "ok", Some(tokens[1]), Some(tokens[2]), FALSE)
        /\ UNCHANGED <<config, now, calls, tg>>

(***************************************************************************)
(* routers/auth.py: refresh, logout, callback                              *)
(***************************************************************************)
\* (mutant) the real subject only has to exist
RefreshAdminOk_ExistsOnly(us, real_sub) == real_sub \in DOMAIN us

\* the re-validation of a delegated refresh: the real subject still exists
\* and is still an administrator
RefreshAdminOk(us, real_sub) ==
    real_sub \in DOMAIN us /\ us[real_sub].role = RoleAdmin

\* (mutant) rotation revokes: a token is refused once a later one with its
\* claims has been issued
RefreshTokenEndpoint_SingleUse(refresh_token) ==
    LET req == [refresh_token |-> refresh_token, at |-> now]
        token == The(refresh_token)
        dec == DecodeToken(token, now)
        user_id == StrToInt(token.sub)
        real_sub == StrToInt(The(token.real_sub))
        plain == LoginTokens(The(user_id), now)
        pair == CreateImpersonationTokens(The(user_id), The(real_sub), now)
        fail(status, detail) ==
            /\ issued' = issued
            /\ resp' = Reply("refresh", req, status, detail)
        ok(tokens) ==
            /\ issued' = issued \cup {tokens[1], tokens[2]}
            /\ resp' = Response("refresh", req, 200, "ok", Some(tokens[1]), Some(tokens[2]), FALSE)
    IN  /\ IF refresh_token = None THEN fail(401, "No refresh token cookie found")
           ELSE IF dec.status # 200 THEN fail(401, dec.detail)
           ELSE IF \E newer \in issued :
                      /\ newer.sub = token.sub /\ newer.real_sub = token.real_sub
                      /\ newer.impersonated = token.impersonated /\ newer.exp > token.exp
                THEN fail(401, "Invalid refresh token")
           ELSE IF token.sub = <<>> THEN fail(401, "Invalid refresh token")
           ELSE IF user_id = None THEN fail(500, "ValueError")
           ELSE IF The(user_id) \notin DOMAIN users THEN fail(401, "Invalid refresh token")
           ELSE IF IsDelegated(token)
           THEN IF real_sub = None THEN fail(500, "ValueError")
                ELSE IF ~RefreshAdminOk(users, The(real_sub))
                THEN fail(401, "Invalid refresh token")
                ELSE ok(pair)
           ELSE ok(plain)
        /\ UNCHANGED <<config, users, now, calls, tg>>

\* refresh_token is the cookie: None or a token
RefreshTokenEndpoint(refresh_token) ==
    LET req == [refresh_token |-> refresh_token, at |-> now]
        token == The(refresh_token)
        dec == DecodeToken(token, now)
        user_id == StrToInt(token.sub)
        real_sub == StrToInt(The(token.real_sub))
        plain == LoginTokens(The(user_id), now)
        pair == CreateImpersonationTokens(The(user_id), The(real_sub), now)
        fail(status, detail) ==
            /\ issued' = issued
            /\ resp' = Reply("refresh", req, status, detail)
        ok(tokens) ==
            /\ issued' = issued \cup {tokens[1], tokens[2]}
            /\ resp' = Response("refresh", req, 200, "ok", Some(tokens[1]), Some(tokens[2]), FALSE)
    IN  /\ IF refresh_token = None THEN fail(401, "No refresh token cookie found")
           ELSE IF dec.status # 200 THEN fail(401, dec.detail)
           ELSE IF token.sub = <<>> THEN fail(401, "Invalid refresh token")
           ELSE IF user_id = None THEN fail(500, "ValueError")
           ELSE IF The(user_id) \notin DOMAIN users THEN fail(401, "Invalid refresh token")
           ELSE IF IsDelegated(token)
           THEN IF real_sub = None THEN fail(500, "ValueError")
                ELSE IF ~RefreshAdminOk(users, The(real_sub))
                THEN fail(401, "Invalid refresh token")
                ELSE ok(pair)
           ELSE ok(plain)
        /\ UNCHANGED <<config, users, now, calls, tg>>

Logout ==
    /\ resp' = Response("logout", <<>>, 200, "ok", None, None, TRUE)
    /\ UNCHANGED <<config, users, now, issued, calls, tg>>

\* /auth/callback: the handler mints a plain refresh token for the subject of
\* the access token it was given and sets it as a cookie on the injected
\* Response, then returns a RedirectResponse of its own.  Whether the
\* Set-Cookie of the former reaches the 302 is the framework's doing, not the
\* handler's: both outcomes.  A cookie that does not reach the reply has not
\* been issued to anybody.
CallbackWithToken(access_token) ==
    LET req == [access_token |-> access_token]
        dec == DecodeToken(access_token, now)
        user_id == StrToInt(access_token.sub)
        cookie == CreateRefreshToken(PlainClaims(The(user_id)), now)
    IN  /\ IF dec.status # 200
           THEN issued' = issued /\ resp' = Reply("callback", req, 401, dec.detail)
           ELSE IF access_token.sub = <<>>
           THEN issued' = issued /\ resp' = Reply("callback", req, 401, "Invalid token")
           ELSE IF user_id = None
           THEN issued' = issued /\ resp' = Reply("callback", req, 500, "ValueError")
           ELSE \E carried \in {None, Some(cookie)} :
                   /\ issued' = issued \cup carried
                   /\ resp' = Response("callback", req, 302, "ok", None, carried, FALSE)
        /\ UNCHANGED <<config, users, now, calls, tg>>

(***************************************************************************)
(* routers/admin.py: impersonate, stop-impersonate, license, balance       *)
(***************************************************************************)
\* str.removeprefix
RemovePrefix(s, prefix) ==
    IF Len(s) >= Len(prefix) /\ SubSeq(s, 1, Len(prefix)) = prefix
    THEN SubSeq(s, Len(prefix) + 1, Len(s))
    ELSE s

TelegramUrlPrefix == <<"h", "t", "t", "p", "s", ":", "/", "/", "t", ".", "m", "e", "/">>

StripUsername(username) == RemovePrefix(RemovePrefix(username, TelegramUrlPrefix), <<"@">>)

\* (mutant) the target may be the administrator
ImpersonateStatus_NoSelfCheck(user, admin) ==
    IF user.found = "multiple" THEN [status |-> 500, detail |-> "MultipleObjectsReturned"]
    ELSE IF user.found = "none" THEN [status |-> 404, detail |-> "User not found"]
    ELSE [status |-> 200, detail |-> "ok"]

\* what impersonate answers for the target `user` it looked up
ImpersonateStatus(user, admin) ==
    IF user.found = "multiple" THEN [status |-> 500, detail |-> "MultipleObjectsReturned"]
    ELSE IF user.found = "none" THEN [status |-> 404, detail |-> "User not found"]
    ELSE IF user.id = admin.id THEN [status |-> 400, detail |-> "Cannot impersonate yourself"]
    ELSE [status |-> 200, detail |-> "ok"]

Impersonate(authorization, username) ==
    LET req == [authorization |-> authorization, username |-> username]
        admin == AdminRequired(authorization, users, now)
        user == GetByUsername(users, StripUsername(username))
        answer == ImpersonateStatus(user, admin)
        tokens == CreateImpersonationTokens(The(user.id), The(admin.id), now)
    IN  /\ IF admin.status # 200
           THEN issued' = issued /\ resp' = Reply("impersonate", req, admin.status, admin.detail)
           ELSE IF answer.status # 200
           THEN issued' = issued /\ resp' = Reply("impersonate", req, answer.status, answer.detail)
           ELSE /\ issued' = issued \cup {tokens[1], tokens[2]}
                /\ resp' = Response("impersonate", req, 200, "ok", Some(tokens[1]), Some(tokens[2]), FALSE)
        /\ UNCHANGED <<config, users, now, calls, tg>>

\* (mutant) the cookie is issued for the identity the caller acts as
StopImpersonate_ForSubject(authorization) ==
    LET req == [authorization |-> authorization]
        admin == AdminRequired(authorization, users, now)
        acting == The(StrToInt(The(authorization).token.sub))
        cookie == CreateRefreshToken(PlainClaims(acting), now)
    IN  /\ IF admin.status # 200
           THEN issued' = issued /\ resp' = Reply("stop_impersonate", req, admin.status, admin.detail)
           ELSE /\ issued' = issued \cup {cookie}
                /\ resp' = Response("stop_impersonate", req, 200, "ok", None, Some(cookie), FALSE)
        /\ UNCHANGED <<config, users, now, calls, tg>>

StopImpersonate(authorization) ==
    LET req == [authorization |-> authorization]
        admin == AdminRequired(authorization, users, now)
        cookie == CreateRefreshToken(PlainClaims(The(admin.id)), now)
    IN  /\ IF admin.status # 200
           THEN issued' = issued /\ resp' = Reply("stop_impersonate", req, admin.status, admin.detail)
           ELSE /\ issued' = issued \cup {cookie}
                /\ resp' = Response("stop_impersonate", req, 200, "ok", None, Some(cookie), FALSE)
        /\ UNCHANGED <<config, users, now, calls, tg>>

\* User.extend_license(days) at time t
ExtendedLicense(row, days, t) ==
    IF row.license_end_date = None \/ The(row.license_end_date) < t
    THEN Some(t + days * SecondsPerDay)
    ELSE Some(The(row.license_end_date) + days * SecondsPerDay)

ExtendLicense(authorization, username, days) ==
    LET req == [authorization |-> authorization, username |-> username, days |-> days]
        admin == AdminRequired(authorization, users, now)
        user == GetByUsername(users, StripUsername(username))
        id == The(user.id)
    IN  /\ IF admin.status # 200
           THEN users' = users /\ resp' = Reply("license", req, admin.status, admin.detail)
           ELSE IF user.found = "multiple"
           THEN users' = users /\ resp' = Reply("license", req, 500, "MultipleObjectsReturned")
           ELSE IF user.found = "none"
           THEN users' = users /\ resp' = Reply("license", req, 200, "error")
           ELSE /\ users' = WithRow(users, id, UpdateRow(users[id],
                                [license_end_date |-> ExtendedLicense(users[id], days, now)]))
                /\ resp' = Reply("license", req, 200, "success")
        /\ UNCHANGED <<config, now, issued, calls, tg>>

\* User.add_balance(rubles) on a row read when its balance was `balance`: the
\* value save(update_fields=["balance"]) writes, None when it returns early
AddedBalance(balance, rubles) ==
    IF rubles <= 0 THEN None ELSE Some(balance + rubles * 100)

SaveBalance(us, id, balance) ==
    IF balance = None \/ id \notin DOMAIN us THEN us
    ELSE WithRow(us, id, UpdateRow(us[id], [balance |-> The(balance)]))

AddBalance(authorization, username, amount) ==
    LET req == [authorization |-> authorization, username |-> username, amount |-> amount]
        admin == AdminRequired(authorization, users, now)
        user == GetByUsername(users, StripUsername(username))
        id == The(user.id)
    IN  /\ IF admin.status # 200
           THEN users' = users /\ resp' = Reply("balance", req, admin.status, admin.detail)
           ELSE IF user.found = "multiple"
           THEN users' = users /\ resp' = Reply("balance", req, 500, "MultipleObjectsReturned")
           ELSE IF user.found = "none"
           THEN users' = users /\ resp' = Reply("balance", req, 200, "error")
           ELSE /\ users' = SaveBalance(users, id, AddedBalance(users[id].balance, amount))
                /\ resp' = Reply("balance", req, 200, "success")
        /\ UNCHANGED <<config, now, issued, calls, tg>>

(***************************************************************************)
(* routers/admin.py: the internal create-or-update                         *)
(***************************************************************************)
CreateUserFields == {"username", "first_name", "last_name", "photo_url", "role",
                     "license_end_date", "balance", "ref_code",
                     "or_api_key", "or_api_hash", "or_model"}

\* a CreateUserIn with only `given` set
CreateUserIn(id, given) ==
    [k \in CreateUserFields \cup {"id"} |->
        IF k = "id" THEN id ELSE IF k \in DOMAIN given THEN Some(given[k]) ELSE None]

\* (mutant) model_dump without exclude_none: a null is a value like any other
CreateUserDefaults_WithNulls(data) ==
    [k \in CreateUserFields |->
        IF k = "role" THEN (IF data[k] = None THEN RoleUser ELSE The(data[k]))
        ELSE IF k = "balance" THEN (IF data[k] = None THEN 0 ELSE The(data[k]))
        ELSE data[k]]

\* data.model_dump(exclude={"id"}, exclude_none=True), as column values
CreateUserDefaults(data) ==
    [k \in {f \in CreateUserFields : data[f] # None} |->
        IF k \in {"role", "balance"} THEN The(data[k]) ELSE data[k]]

\* (mutant) the column is not declared unique
BreaksUnique_NoConstraint(us, id, fields) == FALSE

\* the UNIQUE constraint on ref_code would be broken by writing `fields` to row id
BreaksUnique(us, id, fields) ==
    /\ "ref_code" \in DOMAIN fields
    /\ \E i \in DOMAIN us : i # id /\ us[i].ref_code = fields.ref_code

CreateUser(x_internal_token, data) ==
    LET req == [x_internal_token |-> x_internal_token, data |-> data]
        gate == InternalSyncRequired(x_internal_token, config)
        defaults == CreateUserDefaults(data)
    IN  /\ IF gate.status # 200
           THEN users' = users /\ resp' = Reply("create_user", req, gate.status, gate.detail)
           ELSE IF BreaksUnique(users, data.id, defaults)
           THEN users' = users /\ resp' = Reply("create_user", req, 500, "IntegrityError")
           ELSE IF data.id \in DOMAIN users
           THEN /\ users' = WithRow(users, data.id, UpdateRow(users[data.id], defaults))
                /\ resp' = Reply("create_user", req, 200, "updated")
           ELSE /\ users' = WithRow(users, data.id, NewUser(defaults))
                /\ resp' = Reply("create_user", req, 200, "created")
        /\ UNCHANGED <<config, now, issued, calls, tg>>

(***************************************************************************)
(* The integration credentials: User.set_openrouter_settings and the       *)
(* handlers that read and write them; /auth/balance and /partners/.        *)
(***************************************************************************)
\* a response with a JSON body
ReplyBody(op, req, status, detail, body) ==
    [op |-> op, req |-> req, status |-> status, detail |-> detail, body |-> body,
     access |-> None, set_cookie |-> None, cleared |-> FALSE]

OpenRouterColumns == {"or_api_key", "or_api_hash", "or_model"}

\* the keyword argument of set_openrouter_settings that feeds a column
SettingOf(column) ==
    CASE column = "or_api_key" -> "api_key"
      [] column = "or_api_hash" -> "api_hash"
      [] column = "or_model" -> "model"

\* an InternalSetOpenRouterIn / UserOpenRouterSettingsIn with only `given` set
OpenRouterIn(given) ==
    [k \in {"api_key", "api_hash", "model"} |->
        IF k \in DOMAIN given THEN Some(given[k]) ELSE None]

\* (mutant) a field that is not supplied is cleared
OpenRouterUpdates_All(data) ==
    [c \in OpenRouterColumns |-> data[SettingOf(c)]]

\* the `updates` dict of User.set_openrouter_settings
OpenRouterUpdates(data) ==
    [c \in {col \in OpenRouterColumns : data[SettingOf(col)] # None} |-> data[SettingOf(c)]]

\* User.set_openrouter_settings on row id: nothing is written for no updates
SetOpenRouter(us, id, data) ==
    IF DOMAIN OpenRouterUpdates(data) = {} THEN us
    ELSE WithRow(us, id, UpdateRow(us[id], OpenRouterUpdates(data)))

\* User.get_openrouter_settings
GetOpenRouter(row) ==
    [api_key |-> row.or_api_key, api_hash |-> row.or_api_hash, model |-> row.or_model]

InternalUserStateOut(us, id) ==
    [user_id |-> id, balance_kopecks |-> us[id].balance] @@ GetOpenRouter(us[id])

InternalUserState(x_internal_token, user_id) ==
    LET req == [x_internal_token |-> x_internal_token, user_id |-> user_id]
        gate == InternalSyncRequired(x_internal_token, config)
    IN  /\ resp' = IF gate.status # 200
                   THEN ReplyBody("user_state", req, gate.status, gate.detail, None)
                   ELSE IF user_id \notin DOMAIN users
                   THEN ReplyBody("user_state", req, 404, "User not found", None)
                   ELSE ReplyBody("user_state", req, 200, "ok",
                                  Some(InternalUserStateOut(users, user_id)))
        /\ UNCHANGED <<config, users, now, issued, calls, tg>>

InternalSetOpenRouterSettings(x_internal_token, user_id, data) ==
    LET req == [x_internal_token |-> x_internal_token, user_id |-> user_id, data |-> data]
        gate == InternalSyncRequired(x_internal_token, config)
        saved == SetOpenRouter(users, user_id, data)
    IN  /\ IF gate.status # 200
           THEN /\ users' = users
                /\ resp' = ReplyBody("internal_set_openrouter", req, gate.status, gate.detail, None)
           ELSE IF user_id \notin DOMAIN users
           THEN /\ users' = users
                /\ resp' = ReplyBody("internal_set_openrouter", req, 404, "User not found", None)
           ELSE /\ users' = saved
                /\ resp' = ReplyBody("internal_set_openrouter", req, 200, "ok",
                                     Some(InternalUserStateOut(saved, user_id)))
        /\ UNCHANGED <<config, now, issued, calls, tg>>

\* GET /auth/openrouter-settings
GetOpenRouterSettings(authorization) ==
    LET req == [authorization |-> authorization]
        current == GetCurrentUser(authorization, users, now)
    IN  /\ resp' = IF current.status # 200
                   THEN ReplyBody("get_openrouter", req, current.status, current.detail, None)
                   ELSE ReplyBody("get_openrouter", req, 200, "ok",
                                  Some(GetOpenRouter(users[The(current.id)])))
        /\ UNCHANGED <<config, users, now, issued, calls, tg>>

\* POST /auth/openrouter-settings
SetOpenRouterSettings(authorization, data) ==
    LET req == [authorization |-> authorization, data |-> data]
        current == GetCurrentUser(authorization, users, now)
        id == The(current.id)
        saved == SetOpenRouter(users, id, data)
    IN  /\ IF current.status # 200
           THEN /\ users' = users
                /\ resp' = ReplyBody("set_openrouter", req, current.status, current.detail, None)
           ELSE IF \A k \in DOMAIN data : data[k] = None
           THEN /\ users' = users
                /\ resp' = ReplyBody("set_openrouter", req, 400, "No fields to update", None)
           ELSE /\ users' = saved
                /\ resp' = ReplyBody("set_openrouter", req, 200, "ok",
                                     Some(GetOpenRouter(saved[id])))
        /\ UNCHANGED <<config, now, issued, calls, tg>>

\* GET /auth/balance: balance_rub is balance / 100, kept as the fraction
GetBalance(authorization) ==
    LET req == [authorization |-> authorization]
        current == GetCurrentUser(authorization, users, now)
        balance == users[The(current.id)].balance
    IN  /\ resp' = IF current.status # 200
                   THEN ReplyBody("get_balance", req, current.status, current.detail, None)
                   ELSE ReplyBody("get_balance", req, 200, "ok",
                                  Some([balance_kopecks |-> balance,
                                        balance_rub |-> <<balance, 100>>]))
        /\ UNCHANGED <<config, users, now, issued, calls, tg>>

\* GET /partners/: the referrer and the referrals of the caller
GetPartners(authorization) ==
    LET req == [authorization |-> authorization]
        user == GetCurrentUser(authorization, users, now)
        id == The(user.id)
    IN  /\ resp' = IF user.status # 200
                   THEN ReplyBody("partners", req, user.status, user.detail, None)
                   ELSE ReplyBody("partners", req, 200, "ok",
                                  Some([id |-> id, referred_by |-> users[id].referred_by,
                                        referrals |-> {i \in DOMAIN users :
                                                         users[i].referred_by = Some(id)}]))
        /\ UNCHANGED <<config, users, now, issued, calls, tg>>

(***************************************************************************)
(* Inputs shared by the specifications.                                    *)
(***************************************************************************)
EmptyTable == [i \in {} |-> None]

NoCalls == [c \in {} |-> None]
NoAssertion == [stage |-> "none"]

\* config.internal.user_sync_token: "sync"
SyncToken == <<115, 121, 110, 99>>

ProdUrl == <<"https://", "users.lidorub.online">>
LocalUrl == <<"http://", "LOCALHOST", ":8834">>

ProdConfig == [api_url |-> Some(ProdUrl), user_sync_token |-> Some(SyncToken)]

Ann == <<"a", "n", "n">>
Bob == <<"b", "o", "b">>
Mike == <<"m", "i", "k", "e">>

\* a payload as the Telegram widget signs it
Signed(data) == [data EXCEPT !.hash = Some(GeneratedHash(data))]

LoginData(id, auth_date, username) ==
    [id |-> Some(id), auth_date |-> Some(auth_date), hash |-> None,
     first_name |-> None, last_name |-> None, username |-> username, photo_url |-> None]

RefCodes == {"AAAAAAAA", "B2B2B2B2"}
\* generate_ref_code returning the same code at every draw
SameDraws(code) == [i \in 1..RefCodeAttempts |-> code]

(***************************************************************************)
(* SpecAuth: the session protocol after two accounts, 42 (ann) and 7 (bob), *)
(* have logged in.  Every handler runs as one step; a request may present  *)
(* any token the service has issued, or a forged one.                      *)
(***************************************************************************)
AuthIds == {42, 7}
AuthUsernameOf(id) == IF id = 42 THEN Ann ELSE Bob

AuthFirstLogins ==
    LET first == LoginUpsert(EmptyTable, Signed(LoginData(42, StartTime, Some(Ann))),
                             None, SameDraws("AAAAAAAA"))
    IN  LoginUpsert(first.users, Signed(LoginData(7, StartTime, Some(Bob))),
                    None, SameDraws("B2B2B2B2"))

\* a delegated token signed with a guessed key
ForgedTokens ==
    {JwtEncode(ImpersonationClaims(7, 42), now + ExpireSeconds, "guessed", JwtAlgorithm)}

Presentable == issued \cup ForgedTokens

Headers ==
    {None, Some([scheme |-> "Basic", token |-> CreateAccessToken(PlainClaims(42), StartTime)])}
        \cup {Some([scheme |-> "Bearer", token |-> t]) : t \in Presentable}

AuthTargets == {Ann, TelegramUrlPrefix \o <<"@">> \o Bob, <<"n", "o">>}

AuthLoginInputs ==
    {Signed(LoginData(id, now - age, Some(AuthUsernameOf(id)))) :
        id \in AuthIds, age \in {0, MaxAuthAge + 1}}

AuthInit ==
    /\ config = ProdConfig
    /\ users = AuthFirstLogins.users
    /\ now = StartTime
    /\ issued = {LoginTokens(id, StartTime)[k] : id \in AuthIds, k \in {1, 2}}
    /\ resp = NoRequest
    /\ calls = NoCalls
    /\ tg = NoAssertion

AuthNext ==
    \/ \E data \in AuthLoginInputs : Login(data, None, SameDraws("AAAAAAAA"))
    \/ \E cookie \in {None} \cup {Some(t) : t \in Presentable} : RefreshTokenEndpoint(cookie)
    \/ Logout
    \/ \E h \in Headers, u \in AuthTargets : Impersonate(h, u)
    \/ \E h \in Headers : StopImpersonate(h)
    \/ \E h \in Headers, u \in {Ann, <<"n", "o">>} : ExtendLicense(h, u, 0)
    \/ \E h \in Headers, u \in {<<"@">> \o Bob, <<"n", "o">>} : AddBalance(h, u, 0)
    \/ \E id \in AuthIds, role \in {RoleUser, RoleAdmin}, x \in {None, Some(SyncToken)} :
            CreateUser(x, CreateUserIn(id, [role |-> role]))

SpecAuth == AuthInit /\ [][AuthNext]_vars

(***************************************************************************)
(* Properties of the session protocol (SpecAuth).                          *)
(***************************************************************************)
AdminOps == {"impersonate", "stop_impersonate", "license", "balance"}

\* the tokens of the last response
RespTokens == resp.access \cup resp.set_cookie

\* the bearer token of the last request, when it carried one the service signed
RespBearer ==
    IF resp.op \in AdminOps /\ resp.req.authorization # None
       /\ The(resp.req.authorization).scheme = "Bearer"
       /\ The(resp.req.authorization).token \in issued
    THEN Some(The(resp.req.authorization).token)
    ELSE None

SubjectOf(token) == The(StrToInt(token.sub))
RealSubjectOf(token) == The(StrToInt(The(token.real_sub)))
\* who is really acting under a token
ActorOf(token) == IF IsDelegated(token) THEN RealSubjectOf(token) ELSE SubjectOf(token)

IsAdminNow(id) == id \in DOMAIN users /\ users[id].role = RoleAdmin

\* C6: every delegated token a response carries (start-impersonate, refresh)
\* names as real_sub an existing account that is an administrator when it is
\* issued, and a caller whose real identity is an existing non-administrator
\* gets 403 from start-impersonate and stop-impersonate, with no token and no
\* cookie.
C6_DelegationOnlyByAdmins ==
    /\ \A t \in RespTokens : IsDelegated(t) => IsAdminNow(RealSubjectOf(t))
    /\ \A t \in RespBearer :
          (/\ resp.op \in {"impersonate", "stop_impersonate"}
           /\ ActorOf(t) \in DOMAIN users
           /\ ~IsAdminNow(ActorOf(t)))
          => resp.status = 403 /\ RespTokens = {} /\ ~resp.cleared

\* a delegated token is in use and its real subject, downgraded since, is
\* refused by start-impersonate
C6_Witness ==
    /\ resp.op = "impersonate"
    /\ resp.status = 403
    /\ \E t \in RespBearer : IsDelegated(t)

\* C7: under a delegated token (subject T, real subject A) an admin-gated
\* operation is refused with 403 exactly when A is not an administrator now,
\* whatever the role of T.
C7_GateFollowsRealSubject ==
    \A t \in RespBearer :
        IsDelegated(t) =>
            /\ IsAdminNow(RealSubjectOf(t)) => resp.status \in {200, 400, 404}
            /\ ~IsAdminNow(RealSubjectOf(t)) => resp.status = 403

\* T is an administrator, A no longer is, and the operation is refused
C7_Witness ==
    \E t \in RespBearer :
        /\ IsDelegated(t)
        /\ IsAdminNow(SubjectOf(t))
        /\ ~IsAdminNow(RealSubjectOf(t))
        /\ resp.status = 403

\* C8: start-impersonate by an administrator whose target username resolves
\* to the administrator's own real id answers 400 and carries no access token
\* and no cookie, under a plain and under a delegated token; no caller at all
\* obtains a token for a target that is its own real id.
C8_NoSelfImpersonation ==
    \A t \in RespBearer :
        (/\ resp.op = "impersonate"
         /\ GetByUsername(users, StripUsername(resp.req.username)).id = Some(ActorOf(t)))
        => /\ RespTokens = {}
           /\ IsAdminNow(ActorOf(t)) => resp.status = 400

\* an administrator acting as somebody else targets the administrator's own name
C8_Witness ==
    \E t \in RespBearer :
        /\ resp.op = "impersonate"
        /\ IsDelegated(t)
        /\ GetByUsername(users, StripUsername(resp.req.username)).id = Some(ActorOf(t))
        /\ resp.status = 400

\* the refresh cookie of the last request
RespCookie ==
    IF resp.op = "refresh" THEN resp.req.refresh_token ELSE None

\* C9: refresh with a delegated refresh token whose real subject does not
\* exist or is not an administrator now answers 401 and carries neither an
\* access token nor a cookie.
C9_StaleDelegationRefused ==
    \A t \in RespCookie :
        (IsDelegated(t) /\ ~IsAdminNow(RealSubjectOf(t)))
        => resp.status = 401 /\ RespTokens = {}

\* a delegated refresh token the service issued, its admin downgraded since
C9_Witness ==
    \E t \in RespCookie :
        /\ t \in issued
        /\ IsDelegated(t)
        /\ RealSubjectOf(t) \in DOMAIN users
        /\ users[RealSubjectOf(t)].role = RoleUser
        /\ resp.status = 401

SameClaims(a, b) ==
    a.sub = b.sub /\ a.real_sub = b.real_sub /\ a.impersonated = b.impersonated

\* C10: a successful refresh answers with an access token and a cookie that
\* carry the claims of the refresh token it was given: the same subject, and
\* the same delegation (real_sub, impersonated) or none.
C10_RefreshKeepsIdentity ==
    \A t \in RespCookie :
        resp.status = 200 =>
            /\ resp.access # None /\ resp.set_cookie # None
            /\ \A new \in RespTokens :
                  /\ SameClaims(new, t)
                  /\ SubjectOf(new) = SubjectOf(t)
                  /\ IsDelegated(new) = IsDelegated(t)
                  /\ IsDelegated(t) => RealSubjectOf(new) = RealSubjectOf(t)
                  /\ ~IsDelegated(t) => new.real_sub = None /\ ~new.impersonated
            /\ The(resp.access).exp = now + ExpireSeconds
            /\ The(resp.set_cookie).exp = now + RefreshExpireDays * SecondsPerDay

\* a delegated refresh token is refreshed
C10_Witness ==
    \E t \in RespCookie :
        resp.status = 200 /\ IsDelegated(t) /\ SubjectOf(t) = 7 /\ RealSubjectOf(t) = 42

(***************************************************************************)
(* SpecLogin: /auth alone, from an empty table, under each deployment.     *)
(***************************************************************************)
LocalConfig == [api_url |-> Some(LocalUrl), user_sync_token |-> Some(SyncToken)]
NoUrlConfig == [api_url |-> None, user_sync_token |-> Some(SyncToken)]

LoginIds == {42, DEV_MOCK_USER_ID}
LoginUsernameOf(id) == IF id = 42 THEN Ann ELSE Mike

\* the hashes a client may send with `data`: Telegram's, the mock one, a
\* wrong one, an empty one
HashesFor(data) == {Some(GeneratedHash(data)), Some(DEV_MOCK_HASH), Some(<<"0">>), Some(<<>>)}

LoginInputs ==
    UNION {{[data EXCEPT !.hash = h] : h \in HashesFor(data)} :
            data \in {LoginData(id, now - age, Some(LoginUsernameOf(id))) :
                        id \in LoginIds, age \in {0, MaxAuthAge, MaxAuthAge + 1}}}

LoginInit ==
    /\ config \in {ProdConfig, LocalConfig, NoUrlConfig}
    /\ users = EmptyTable
    /\ now = StartTime
    /\ issued = {}
    /\ resp = NoRequest
    /\ calls = NoCalls
    /\ tg = NoAssertion

LoginNext ==
    \E data \in LoginInputs, invite \in {None, Some("AAAAAAAA")}, code \in RefCodes :
        Login(data, invite, SameDraws(code))

SpecLogin == LoginInit /\ [][LoginNext]_vars

\* the login payload of the last request
LoginRequest == IF resp.op = "login" THEN {resp.req.data} ELSE {}

IsStale(data) == now - The(data.auth_date) > MaxAuthAge

\* the one payload the local-development deployment lets in unverified
IsMockLogin(data) ==
    /\ config.api_url # None
    /\ \E i \in 1..Len(The(config.api_url)) :
          The(config.api_url)[i] \in {"localhost", "LOCALHOST", "127.0.0.1"}
    /\ data.hash = Some(DEV_MOCK_HASH)
    /\ data.id = Some(DEV_MOCK_USER_ID)

VerifyStrings == {None, Some(<<>>), Some(<<"a">>), Some(<<"b">>),
                  Some(<<"a", "\n", "i", "d", "=", "7">>)}
VerifyIds == {0, 7, 42}

VerifyPayloads ==
    {[id |-> Some(id), auth_date |-> Some(StartTime - age), hash |-> None,
      first_name |-> first_name, last_name |-> None, username |-> username,
      photo_url |-> Some(<<"b">>)] :
        id \in VerifyIds, age \in {0, MaxAuthAge},
        first_name \in VerifyStrings, username \in {None, Some(<<"a">>), Some(<<"b">>)}}

\* the values a field may be changed to
VerifyValues(k) ==
    IF k = "id" THEN {Some(id) : id \in VerifyIds}
    ELSE IF k = "auth_date"
    THEN {None, Some(0), Some(now), Some(now - MaxAuthAge), Some(now - MaxAuthAge - 1)}
    ELSE VerifyStrings

VerifyHashes(data) ==
    {None, Some(<<>>), Some(DEV_MOCK_HASH), Some(GeneratedHash(data) \o <<"0">>),
     Some(GeneratedHash([data EXCEPT !.id = Some(The(data.id) + 1)]))}

VerifyInit ==
    /\ config = ProdConfig
    /\ users = EmptyTable
    /\ now = StartTime
    /\ issued = {}
    /\ resp = NoRequest
    /\ calls = NoCalls
    /\ tg \in {[stage |-> "signed", data |-> Signed(data), changed |-> "nothing",
                result |-> ""] : data \in VerifyPayloads}

\* the value of one non-empty field is changed
ChangeField(k, v) ==
    /\ tg.stage = "signed"
    /\ Truthy(tg.data, k)
    /\ v # tg.data[k]
    /\ tg' = [tg EXCEPT !.stage = "sent", !.data[k] = v, !.changed = k]
    /\ UNCHANGED <<config, users, now, issued, resp, calls>>

\* the hash is changed
ChangeHash(h) ==
    /\ tg.stage = "signed"
    /\ h # tg.data.hash
    /\ tg' = [tg EXCEPT !.stage = "sent", !.data.hash = h, !.changed = "hash"]
    /\ UNCHANGED <<config, users, now, issued, resp, calls>>

Deliver ==
    /\ tg.stage = "signed"
    /\ tg' = [tg EXCEPT !.stage = "sent"]
    /\ UNCHANGED <<config, users, now, issued, resp, calls>>

Verify ==
    /\ tg.stage = "sent"
    /\ tg' = [tg EXCEPT !.stage = "verified", !.result = ValidateTelegramData(tg.data, now)]
    /\ UNCHANGED <<config, users, now, issued, resp, calls>>

VerifyNext ==
    \/ \E i \in 1..Len(DataKeys) : \E v \in VerifyValues(DataKeys[i]) : ChangeField(DataKeys[i], v)
    \/ \E h \in VerifyHashes(tg.data) : ChangeHash(h)
    \/ Deliver
    \/ Verify

SpecVerify == VerifyInit /\ [][VerifyNext]_vars

Verified == tg.stage = "verified"
StillFresh == tg.data.auth_date # None /\ now - The(tg.data.auth_date) <= MaxAuthAge
HashPresent == tg.data.hash # None /\ tg.data.hash # Some(<<>>)

IdleCall ==
    [op |-> "idle", pc |-> "idle", x_internal_token |-> None, user_id |-> 0,
     amount |-> 0, seen |-> None, updated |-> FALSE, row |-> None, http |-> 0,
     status |-> "", balance |-> None]

Finished(call, http, status, balance) ==
    [call EXCEPT !.pc = "done", !.http = http, !.status = status, !.balance = balance]

\* (mutant) the UPDATE carries no balance filter
DebitMatches_Unfiltered(balance, amount_kopecks) == TRUE

\* filter(id=..., balance__gte=amount_kopecks) matches the row
DebitMatches(balance, amount_kopecks) == balance >= amount_kopecks

\* (mutant) the account is looked up before the amount is checked
InternalDebitBalance_LookupFirst(c, x_internal_token, user_id, amount_kopecks) ==
    LET gate == InternalSyncRequired(x_internal_token, config)
        call == [IdleCall EXCEPT !.op = "debit", !.x_internal_token = x_internal_token,
                                 !.user_id = user_id, !.amount = amount_kopecks]
    IN  /\ calls[c].pc = "idle"
        /\ calls' = [calls EXCEPT ![c] =
              IF gate.status # 200 THEN Finished(call, gate.status, gate.detail, None)
              ELSE IF user_id \notin DOMAIN users
              THEN Finished(call, 200, "not_found", None)
              ELSE IF amount_kopecks <= 0
              THEN Finished(call, 400, "amount_kopecks must be positive", None)
              ELSE [call EXCEPT !.pc = "update"]]
        /\ UNCHANGED <<config, users, now, issued, resp, tg>>

\* the request arrives: the token check, the amount check and get_or_none
InternalDebitBalance(c, x_internal_token, user_id, amount_kopecks) ==
    LET gate == InternalSyncRequired(x_internal_token, config)
        call == [IdleCall EXCEPT !.op = "debit", !.x_internal_token = x_internal_token,
                                 !.user_id = user_id, !.amount = amount_kopecks]
    IN  /\ calls[c].pc = "idle"
        /\ calls' = [calls EXCEPT ![c] =
              IF gate.status # 200 THEN Finished(call, gate.status, gate.detail, None)
              ELSE IF amount_kopecks <= 0
              THEN Finished(call, 400, "amount_kopecks must be positive", None)
              ELSE IF user_id \notin DOMAIN users
              THEN Finished(call, 200, "not_found", None)
              ELSE [call EXCEPT !.pc = "update"]]
        /\ UNCHANGED <<config, users, now, issued, resp, tg>>

\* filter(...).update(balance=F("balance") - amount_kopecks): one statement
DebitUpdate(c) ==
    LET call == calls[c]
        id == call.user_id
        hit == id \in DOMAIN users /\ DebitMatches(users[id].balance, call.amount)
    IN  /\ call.op = "debit" /\ call.pc = "update"
        /\ users' = IF hit
                    THEN WithRow(users, id, UpdateRow(users[id],
                                    [balance |-> users[id].balance - call.amount]))
                    ELSE users
        /\ calls' = [calls EXCEPT ![c] =
              [call EXCEPT !.pc = "reread", !.updated = hit,
                           !.seen = IF id \in DOMAIN users THEN Some(users[id].balance)
                                    ELSE None]]
        /\ UNCHANGED <<config, now, issued, resp, tg>>

\* User.get(id=...) and the reply
DebitReread(c) ==
    LET call == calls[c]
        fresh == Some(users[call.user_id].balance)
    IN  /\ call.op = "debit" /\ call.pc = "reread"
        /\ calls' = [calls EXCEPT ![c] =
              IF call.updated THEN Finished(call, 200, "ok", fresh)
              ELSE Finished(call, 200, "insufficient_funds", fresh)]
        /\ UNCHANGED <<config, users, now, issued, resp, tg>>

\* add_balance up to its get_or_none: the row object is loaded
AddBalanceLoad(c, authorization, username, amount) ==
    LET admin == AdminRequired(authorization, users, now)
        user == GetByUsername(users, StripUsername(username))
        call == [IdleCall EXCEPT !.op = "add", !.amount = amount]
    IN  /\ calls[c].pc = "idle"
        /\ calls' = [calls EXCEPT ![c] =
              IF admin.status # 200 THEN Finished(call, admin.status, admin.detail, None)
              ELSE IF user.found = "multiple"
              THEN Finished(call, 500, "MultipleObjectsReturned", None)
              ELSE IF user.found = "none" THEN Finished(call, 200, "error", None)
              ELSE [call EXCEPT !.pc = "save", !.user_id = The(user.id),
                                !.row = Some(users[The(user.id)].balance)]]
        /\ UNCHANGED <<config, users, now, issued, resp, tg>>

\* user.add_balance(amount): the loaded row's balance, raised, is saved
AddBalanceSave(c) ==
    LET call == calls[c]
    IN  /\ call.op = "add" /\ call.pc = "save"
        /\ users' = SaveBalance(users, call.user_id, AddedBalance(The(call.row), call.amount))
        /\ calls' = [calls EXCEPT ![c] =
              [Finished(call, 200, "success", None) EXCEPT
                    !.seen = Some(users[call.user_id].balance)]]
        /\ UNCHANGED <<config, now, issued, resp, tg>>

(***************************************************************************)
(* SpecDebit: NumCalls internal debit requests in flight against account    *)
(* 42, which /admin/create-user inserted with a balance of OpeningBalance. *)
(***************************************************************************)
OpeningBalance == 100
DebitAccount == 42
DebitAmounts == {60, 40, 0}
CallIds == 1..NumCalls

DebitInit ==
    /\ config = ProdConfig
    /\ users = WithRow(EmptyTable, DebitAccount, NewUser([balance |-> OpeningBalance]))
    /\ now = StartTime
    /\ issued = {}
    /\ resp = NoRequest
    /\ calls = [c \in CallIds |-> IdleCall]
    /\ tg = NoAssertion

DebitNext ==
    \/ \E c \in CallIds, x \in {None, Some(SyncToken)}, id \in {DebitAccount, 9},
          amount \in DebitAmounts : InternalDebitBalance(c, x, id, amount)
    \/ \E c \in CallIds : DebitUpdate(c)
    \/ \E c \in CallIds : DebitReread(c)

SpecDebit == DebitInit /\ [][DebitNext]_vars

RECURSIVE TotalAmount(_)
\* the sum of what the requests in `cs` asked for
TotalAmount(cs) ==
    IF cs = {} THEN 0
    ELSE LET c == CHOOSE x \in cs : TRUE
         IN  calls[c].amount + TotalAmount(cs \ {c})

\* the debits whose UPDATE changed the row
Applied == {c \in DOMAIN calls : calls[c].op = "debit" /\ calls[c].updated}
\* the debits that have replied with `status`
Replied(status) ==
    {c \in DOMAIN calls : calls[c].op = "debit" /\ calls[c].pc = "done"
                          /\ calls[c].http = 200 /\ calls[c].status = status}

\* C1: under every interleaving of debit requests a debit changes the row
\* only if the balance its UPDATE found was >= its amount, and is refused
\* only if that balance was smaller; the balance is never negative and is the
\* opening balance less the debits that replied or will reply "ok", each
\* counted once; when every request asks the same amount, which the opening
\* balance covers once but not twice (60 against 100), exactly one replies
\* "ok", the others "insufficient_funds", and the balance ends at the opening
\* balance less that amount (40).
C1_DebitIsAtomic ==
    LET balance == users[DebitAccount].balance
    IN  /\ balance >= 0
        /\ balance = OpeningBalance - TotalAmount(Applied)
        /\ \A c \in DOMAIN calls :
              /\ (calls[c].seen # None /\ calls[c].updated)
                    => The(calls[c].seen) >= calls[c].amount
              /\ (calls[c].seen # None /\ ~calls[c].updated)
                    => The(calls[c].seen) < calls[c].amount
        /\ Replied("ok") \subseteq Applied
        /\ Replied("insufficient_funds") \cap Applied = {}
        /\ \A a \in DebitAmounts :
              (/\ a <= OpeningBalance /\ OpeningBalance < 2 * a
               /\ \A c \in DOMAIN calls :
                     /\ calls[c].pc = "done" /\ calls[c].http = 200
                     /\ calls[c].user_id = DebitAccount /\ calls[c].amount = a)
              => /\ Cardinality(Replied("ok")) = 1
                 /\ Replied("insufficient_funds") = DOMAIN calls \ Replied("ok")
                 /\ balance = OpeningBalance - a

\* two debits of 60 have both passed the lookup and both run their UPDATE
\* before either replies: one changed the row, the other did not
C1_Witness ==
    /\ \A c \in DOMAIN calls :
          /\ calls[c].op = "debit" /\ calls[c].amount = 60
          /\ calls[c].user_id = DebitAccount
    /\ \E c, d \in DOMAIN calls :
          /\ calls[c].pc = "reread" /\ calls[c].updated
          /\ calls[d].pc = "reread" /\ ~calls[d].updated
    /\ users[DebitAccount].balance = OpeningBalance - 60

\* the debits that passed the token check and have replied
DebitsAnswered ==
    {c \in DOMAIN calls : /\ calls[c].op = "debit" /\ calls[c].pc = "done"
                          /\ calls[c].x_internal_token = config.user_sync_token}

\* C25: a debit that passes the token check replies 400 when its amount is
\* <= 0, whether the account exists or not; "not_found" without a balance
\* when the amount is positive and the account does not exist;
\* "insufficient_funds" with the balance it reads when the balance its UPDATE
\* found was smaller than the amount; "ok" otherwise.  Only the UPDATE of a
\* debit that will reply "ok" changes the table, and it lowers the balance of
\* that one account by exactly the amount.
C25_DebitOutcomes ==
    /\ [](\A c \in DebitsAnswered :
            LET call == calls[c]
            IN  /\ call.amount <= 0
                      => /\ call.http = 400 /\ call.balance = None
                         /\ ~call.updated /\ call.seen = None
                /\ (call.amount > 0 /\ call.user_id \notin DOMAIN users)
                      => /\ call.http = 200 /\ call.status = "not_found"
                         /\ call.balance = None /\ ~call.updated /\ call.seen = None
                /\ (call.amount > 0 /\ call.user_id \in DOMAIN users)
                      => /\ call.http = 200 /\ call.seen # None /\ call.balance # None
                         /\ call.status = IF The(call.seen) < call.amount
                                          THEN "insufficient_funds" ELSE "ok"
                         /\ call.updated <=> call.status = "ok")
    /\ [][\A c \in DOMAIN calls :
            /\ (calls'[c] # calls[c] /\ calls'[c].pc = "done")
                  => /\ users' = users
                     /\ calls'[c].status \in {"ok", "insufficient_funds"}
                           => calls'[c].balance = Some(users[calls[c].user_id].balance)
            /\ (calls'[c] # calls[c] /\ calls'[c].pc = "reread")
                  => LET id == calls[c].user_id
                     IN  IF calls'[c].updated
                         THEN users' = WithRow(users, id,
                                  [users[id] EXCEPT !.balance = @ - calls[c].amount])
                         ELSE users' = users]_vars

\* a debit of 0 against an account that does not exist has been answered 400,
\* and a debit of 60 has been answered "ok" with the balance it left
C25_Witness ==
    \E c \in DebitsAnswered, d \in DebitsAnswered :
        /\ calls[c].user_id = 9 /\ calls[c].amount = 0 /\ calls[c].http = 400
        /\ calls[d].user_id = DebitAccount /\ calls[d].amount = 60
        /\ calls[d].status = "ok"
        /\ calls[d].balance = Some(OpeningBalance - 60)
        /\ users[DebitAccount].balance = OpeningBalance - 60

(***************************************************************************)
(* SpecBalance: everything that writes a balance.  Accounts 42 (ann, made   *)
(* an administrator by /admin/create-user) and 7 (bob, holding             *)
(* OpeningBalance) exist; debits and top-ups are in flight while           *)
(* /admin/create-user and /auth are called.                                *)
(***************************************************************************)
BalanceAdmin == Some([scheme |-> "Bearer", token |-> LoginTokens(42, StartTime)[1]])

BalanceInit ==
    /\ config = ProdConfig
    /\ users = LET us == AuthFirstLogins.users
               IN  [i \in DOMAIN us |->
                      IF i = 42 THEN UpdateRow(us[i], [role |-> RoleAdmin])
                      ELSE UpdateRow(us[i], [balance |-> OpeningBalance])]
    /\ now = StartTime
    /\ issued = {LoginTokens(id, StartTime)[k] : id \in AuthIds, k \in {1, 2}}
    /\ resp = NoRequest
    /\ calls = [c \in CallIds |-> IdleCall]
    /\ tg = NoAssertion

BalanceNext ==
    \/ \E c \in CallIds, amount \in {60, 0} : InternalDebitBalance(c, Some(SyncToken), 7, amount)
    \/ \E c \in CallIds : DebitUpdate(c)
    \/ \E c \in CallIds : DebitReread(c)
    \/ \E c \in CallIds, h \in {None, BalanceAdmin}, amount \in {1, -1} :
            AddBalanceLoad(c, h, <<"@">> \o Bob, amount)
    \/ \E c \in CallIds : AddBalanceSave(c)
    \/ \E id \in {7, 9}, balance \in {50, -5} :
            CreateUser(Some(SyncToken), CreateUserIn(id, [balance |-> balance]))
    \/ Login(Signed(LoginData(8, now, Some(Mike))), Some("AAAAAAAA"), SameDraws("B2B2B2B2"))

SpecBalance == BalanceInit /\ [][BalanceNext]_vars

\* C2 as stated: whatever has written it, every account's balance is >= 0
C2_BalanceNeverNegative == \A id \in DOMAIN users : users[id].balance >= 0

(***************************************************************************)
(* SpecLedger: top-ups by the administrator and internal debits of bob's    *)
(* balance in flight together, and nothing else that writes a balance.      *)
(***************************************************************************)
LedgerNext ==
    \/ \E c \in CallIds, amount \in {60, 0} : InternalDebitBalance(c, Some(SyncToken), 7, amount)
    \/ \E c \in CallIds : DebitUpdate(c)
    \/ \E c \in CallIds : DebitReread(c)
    \/ \E c \in CallIds, amount \in {1, -1} :
            AddBalanceLoad(c, BalanceAdmin, <<"@">> \o Bob, amount)
    \/ \E c \in CallIds : AddBalanceSave(c)

SpecLedger == BalanceInit /\ [][LedgerNext]_vars

\* the top-ups that have been answered "success" for a positive amount
Credited ==
    {c \in DOMAIN calls : /\ calls[c].op = "add" /\ calls[c].pc = "done"
                          /\ calls[c].status = "success" /\ calls[c].amount > 0}

\* C26 as stated: once every request in flight has been answered, the balance
\* is the opening balance plus 100 for every unit credited less every debit
\* that was applied.
C26_NoLostUpdate ==
    (\A c \in DOMAIN calls : calls[c].pc \in {"idle", "done"})
    => users[7].balance = OpeningBalance + 100 * TotalAmount(Credited) - TotalAmount(Applied)

(***************************************************************************)
(* SpecCodec: the token codec alone.  One token, or one impersonation pair, *)
(* is issued; time passes; the token, as issued or altered on the way, is  *)
(* decoded.                                                                *)
(***************************************************************************)
\* the claims jwt.decode returns
Payload(token) ==
    [sub |-> token.sub, real_sub |-> token.real_sub, impersonated |-> token.impersonated]

\* what a call of decode_token at time t ends with: the claims, or the error
Decoded(token, t) ==
    LET dec == DecodeToken(token, t)
    IN  [op |-> "decode", req |-> [token |-> token, at |-> t],
         status |-> dec.status, detail |-> dec.detail,
         payload |-> IF dec.status = 200 THEN Some(Payload(token)) ELSE None,
         access |-> None, set_cookie |-> None, cleared |-> FALSE]

CodecSubjects == {0, 7, 42}
RefreshLifetime == RefreshExpireDays * SecondsPerDay
\* the moments the clock stops at
CodecInstants ==
    {StartTime + d : d \in {0, ExpireSeconds - 1, ExpireSeconds, ExpireSeconds + 1,
                            RefreshLifetime, RefreshLifetime + 1}}

\* a token on its way: as issued, with a byte of its signature or of its
\* payload changed (the signature verifies under no key), with a header that
\* names another algorithm, and a string that is no token at all
Altered(token) ==
    {token,
     [token EXCEPT !.key = "tampered"],
     [token EXCEPT !.key = "tampered", !.sub = IntToStr(42)],
     [token EXCEPT !.alg = "none"],
     [token EXCEPT !.key = "", !.alg = ""]}

CodecInit ==
    /\ config = ProdConfig
    /\ users = EmptyTable
    /\ now = StartTime
    /\ issued = {}
    /\ resp = NoRequest
    /\ calls = NoCalls
    /\ tg = NoAssertion

IssueAccess(id) ==
    LET token == CreateAccessToken(PlainClaims(id), now)
    IN  /\ issued = {}
        /\ issued' = {token}
        /\ resp' = Response("issue_access", [id |-> id], 200, "ok", Some(token), None, FALSE)
        /\ UNCHANGED <<config, users, now, calls, tg>>

IssueRefresh(id) ==
    LET token == CreateRefreshToken(PlainClaims(id), now)
    IN  /\ issued = {}
        /\ issued' = {token}
        /\ resp' = Response("issue_refresh", [id |-> id], 200, "ok", None, Some(token), FALSE)
        /\ UNCHANGED <<config, users, now, calls, tg>>

IssueImpersonationPair(target_user_id, admin_id) ==
    LET pair == CreateImpersonationTokens(target_user_id, admin_id, now)
    IN  /\ issued = {}
        /\ issued' = {pair[1], pair[2]}
        /\ resp' = Response("issue_pair",
                            [target_user_id |-> target_user_id, admin_id |-> admin_id],
                            200, "ok", Some(pair[1]), Some(pair[2]), FALSE)
        /\ UNCHANGED <<config, users, now, calls, tg>>

\* time passes
Tick(t) ==
    /\ t > now
    /\ now' = t
    /\ UNCHANGED <<config, users, issued, resp, calls, tg>>

Decode(token) ==
    /\ resp' = Decoded(token, now)
    /\ UNCHANGED <<config, users, now, issued, calls, tg>>

CodecNext ==
    \/ \E id \in CodecSubjects : IssueAccess(id)
    \/ \E id \in CodecSubjects : IssueRefresh(id)
    \/ \E target \in CodecSubjects, admin \in CodecSubjects : IssueImpersonationPair(target, admin)
    \/ \E t \in CodecInstants : Tick(t)
    \/ \E token \in issued : \E sent \in Altered(token) : Decode(sent)

SpecCodec == CodecInit /\ [][CodecNext]_vars

DecodedNow == resp.op = "decode"

\* C12: for every subject S and issue time i, decoding the access token
\* issued for S at i at a time strictly before i + ExpireSeconds returns the
\* claims: subject S, no real_sub, impersonated false; decoding it at a time
\* later than i + ExpireSeconds fails with 401 "Token expired" and returns
\* no claims.
C12_AccessTokenRoundTrip ==
    \A id \in CodecSubjects, i \in CodecInstants :
        (DecodedNow /\ resp.req.token = CreateAccessToken(PlainClaims(id), i))
        => /\ resp.req.at < i + ExpireSeconds
                => /\ resp.status = 200
                   /\ resp.payload # None
                   /\ StrToInt(The(resp.payload).sub) = Some(id)
                   /\ The(resp.payload).real_sub = None
                   /\ ~The(resp.payload).impersonated
           /\ resp.req.at > i + ExpireSeconds
                => /\ resp.status = 401
                   /\ resp.detail = "Token expired"
                   /\ resp.payload = None

\* an access token is decoded one second past its lifetime
C12_Witness ==
    /\ DecodedNow
    /\ resp.req.token = CreateAccessToken(PlainClaims(7), StartTime)
    /\ resp.req.at = StartTime + ExpireSeconds + 1
    /\ resp.detail = "Token expired"

\* C13: for every pair (target, admin) create_impersonation_tokens returns
\* an access and a refresh token that are equal but for their expiry (issue
\* time + ExpireSeconds, issue time + the refresh lifetime), and each of them
\* decodes, until it expires, to sub = target, real_sub = admin,
\* impersonated = true.
C13_ImpersonationPairRoundTrip ==
    /\ resp.op = "issue_pair" =>
          LET access == The(resp.access)
              refresh == The(resp.set_cookie)
          IN  /\ [refresh EXCEPT !.exp = access.exp] = access
              /\ refresh.exp - access.exp = RefreshLifetime - ExpireSeconds
    /\ \A target \in CodecSubjects, admin \in CodecSubjects, i \in CodecInstants, k \in {1, 2} :
          LET token == CreateImpersonationTokens(target, admin, i)[k]
          IN  (DecodedNow /\ resp.req.token = token /\ resp.req.at <= token.exp)
              => /\ resp.status = 200
                 /\ resp.payload # None
                 /\ StrToInt(The(resp.payload).sub) = Some(target)
                 /\ The(resp.payload).real_sub # None
                 /\ StrToInt(The(The(resp.payload).real_sub)) = Some(admin)
                 /\ The(resp.payload).impersonated

\* the refresh token of a pair is decoded after the access token has expired
C13_Witness ==
    /\ DecodedNow
    /\ resp.req.token = CreateImpersonationTokens(7, 42, StartTime)[2]
    /\ resp.req.at = StartTime + RefreshLifetime
    /\ resp.status = 200

\* the signature and the header of a token are what the service writes
Genuine(token) == token.key = JwtSecret /\ token.alg = JwtAlgorithm

\* C14: decode_token ends in one of three ways: the claims are returned;
\* 401 "Token expired", exactly when the token is genuine and past its
\* expiry; 401 "Invalid token", exactly when it is not genuine (altered
\* signature or payload, another algorithm, no token at all), past its expiry
\* or not; a failing decode returns no claims.
C14_DecodeFailures ==
    DecodedNow =>
        LET token == resp.req.token
            at == resp.req.at
        IN  /\ resp.status \in {200, 401}
            /\ resp.status = 200 <=> (Genuine(token) /\ at <= token.exp)
            /\ resp.status = 200 <=> resp.payload # None
            /\ resp.status = 401 => resp.detail \in {"Token expired", "Invalid token"}
            /\ (resp.status = 401 /\ resp.detail = "Token expired")
                  <=> (Genuine(token) /\ at > token.exp)
            /\ (resp.status = 401 /\ resp.detail = "Invalid token") <=> ~Genuine(token)

\* a token altered on the way is decoded after it has expired
C14_Witness ==
    /\ DecodedNow
    /\ resp.req.token.key = "tampered"
    /\ resp.req.at > resp.req.token.exp
    /\ resp.detail = "Invalid token"

(***************************************************************************)
(* routers/auth.py: /auth/me                                               *)
(***************************************************************************)
\* the UserMeOut of account id under `token`
UserMeOut(us, id, token, t) ==
    [id |-> id, role |-> us[id].role, balance |-> us[id].balance,
     has_license |-> us[id].license_end_date # None /\ The(us[id].license_end_date) > t,
     ref_code |-> us[id].ref_code,
     impersonated |-> IsDelegated(token),
     real_user_id |-> IF IsDelegated(token) THEN StrToInt(The(token.real_sub)) ELSE None]

Me(authorization) ==
    LET req == [authorization |-> authorization, at |-> now]
        current == GetCurrentUser(authorization, users, now)
        token == The(authorization).token
        reply(status, detail, body) ==
            [op |-> "me", req |-> req, status |-> status, detail |-> detail, body |-> body,
             access |-> None, set_cookie |-> None, cleared |-> FALSE]
    IN  /\ resp' = IF current.status # 200 THEN reply(current.status, current.detail, None)
                   ELSE IF IsDelegated(token) /\ StrToInt(The(token.real_sub)) = None
                   THEN reply(500, "ValueError", None)
                   ELSE reply(200, "ok", Some(UserMeOut(users, The(current.id), token, now)))
        /\ UNCHANGED <<config, users, now, issued, calls, tg>>

(***************************************************************************)
(* SpecSession: tokens over time, in a local-development deployment.       *)
(* Accounts 42 (ann, an administrator) and 7 (bob) have logged in, ann has *)
(* started to impersonate bob and the mock login has been used, all at     *)
(* StartTime.  A request presents any token issued so far, whichever way    *)
(* it was issued, an altered one, or none.                                 *)
(***************************************************************************)
SessionInstants ==
    {StartTime + d : d \in {0, ExpireSeconds, ExpireSeconds + 1, RefreshLifetime + 1}}

MockLogin == [LoginData(DEV_MOCK_USER_ID, now, None) EXCEPT !.hash = Some(DEV_MOCK_HASH)]

SessionFirstTokens ==
    {LoginTokens(42, StartTime)[k] : k \in {1, 2}}
        \cup {LoginTokens(DEV_MOCK_USER_ID, StartTime)[k] : k \in {1, 2}}
        \cup {CreateImpersonationTokens(7, 42, StartTime)[k] : k \in {1, 2}}

\* what a request may present: an issued token or an altered one
SessionTokens ==
    issued \cup {[LoginTokens(42, StartTime)[2] EXCEPT !.key = "tampered"],
                 [LoginTokens(42, StartTime)[2] EXCEPT !.key = "", !.alg = ""]}

SessionInit ==
    /\ config = LocalConfig
    /\ users = LET us == AuthFirstLogins.users
               IN  [i \in DOMAIN us |->
                      IF i = 42 THEN UpdateRow(us[i], [role |-> RoleAdmin]) ELSE us[i]]
    /\ now = StartTime
    /\ issued = SessionFirstTokens
    /\ resp = NoRequest
    /\ calls = NoCalls
    /\ tg = NoAssertion

SessionNext ==
    \/ Login(MockLogin, None, SameDraws("AAAAAAAA"))
    \/ \E cookie \in {None} \cup {Some(t) : t \in SessionTokens} : RefreshTokenEndpoint(cookie)
    \/ \E t \in SessionTokens : Me(Some([scheme |-> "Bearer", token |-> t]))
    \/ \E t \in SessionInstants : Tick(t)

SpecSession == SessionInit /\ [][SessionNext]_vars

\* the account a token's subject names, if there is one
SubjectHasAccount(token) ==
    StrToInt(token.sub) # None /\ The(StrToInt(token.sub)) \in DOMAIN users

\* C11: refresh answers 401 when there is no cookie, when the cookie does
\* not decode (a genuine token past its expiry, an altered one, a string that
\* is no token) and when the token's subject has no account; every refresh
\* that fails carries no access token, sets no cookie and clears none.
C11_RefreshFailures ==
    resp.op = "refresh" =>
        /\ resp.req.refresh_token = None => resp.status = 401
        /\ \A t \in resp.req.refresh_token :
              /\ ~Genuine(t) => resp.status = 401 /\ resp.detail = "Invalid token"
              /\ (Genuine(t) /\ resp.req.at > t.exp)
                    => resp.status = 401 /\ resp.detail = "Token expired"
              /\ ~SubjectHasAccount(t) => resp.status = 401
        /\ resp.status # 200 => RespTokens = {} /\ ~resp.cleared

\* the refresh cookie of the mock login, whose subject has no account
C11_Witness ==
    /\ resp.op = "refresh"
    /\ resp.req.refresh_token = Some(LoginTokens(DEV_MOCK_USER_ID, StartTime)[2])
    /\ resp.req.at <= StartTime + RefreshLifetime
    /\ resp.status = 401
    /\ resp.detail = "Invalid refresh token"
    /\ RespTokens = {}

\* C15: refresh accepts every unexpired token the service has issued, an
\* access token as well as a refresh token, and so does the identity
\* resolution of /auth/me with a bearer token; whether the request succeeds
\* follows from the token's claims and the accounts alone (the subject has an
\* account; behind a delegated refresh the real subject is an administrator),
\* and the reply is the one the claims call for.
C15_TokensInterchangeable ==
    /\ resp.op = "refresh" =>
          \A t \in resp.req.refresh_token :
              (t \in issued /\ resp.req.at <= t.exp)
              => /\ resp.status = 200 <=>
                       /\ SubjectHasAccount(t)
                       /\ IsDelegated(t) => IsAdminNow(RealSubjectOf(t))
                 /\ resp.status = 200 => \A new \in RespTokens : SameClaims(new, t)
    /\ resp.op = "me" =>
          LET t == The(resp.req.authorization).token
          IN  (t \in issued /\ resp.req.at <= t.exp)
              => /\ resp.status = 200 <=> SubjectHasAccount(t)
                 /\ resp.status = 200 => The(resp.body).id = SubjectOf(t)

\* the access token of an impersonation pair, put in the cookie, is refreshed
C15_Witness ==
    /\ resp.op = "refresh"
    /\ resp.status = 200
    /\ resp.req.refresh_token = Some(CreateImpersonationTokens(7, 42, StartTime)[1])

(***************************************************************************)
(* routers/auth.py: login, one step per database statement, so that logins  *)
(* in flight interleave.  calls[c] is login c:                             *)
(*   user     - the row get_or_none(id=...) returned (the `user` object;   *)
(*              its ref_code follows the handler's assignment)             *)
(*   referrer - the id of the row the invite code resolved to              *)
(*   code     - the candidate create_unique_ref_code returned              *)
(*   attempts - the candidates drawn so far                                *)
(*   drawn    - the candidate of the last draw (kept for the properties)   *)
(*   linked   - the referrer this login has saved (kept for the            *)
(*              properties)                                                *)
(***************************************************************************)
IdleLogin ==
    [op |-> "idle", pc |-> "idle", id |-> 0, data |-> LoginData(0, 0, None),
     invite_ref_code |-> None, user |-> None, referrer |-> None, code |-> None,
     attempts |-> 0, drawn |-> None, linked |-> None, http |-> 0, detail |-> ""]

LoginDone(call, http, detail) ==
    [call EXCEPT !.pc = "done", !.http = http, !.detail = detail]

\* where login goes once the referrer is known
AfterReferrer(call) ==
    IF call.user = None THEN "draw" ELSE "update"

\* the request arrives: the bypass, validate_telegram_data, get_or_none(id=...)
LoginStart(c, data, invite_ref_code) ==
    LET id == The(data.id)
        call == [IdleLogin EXCEPT !.op = "login", !.id = id, !.data = data,
                                  !.invite_ref_code = invite_ref_code,
                                  !.user = IF id \in DOMAIN users THEN Some(users[id]) ELSE None]
        checked == ValidateTelegramData(data, now)
        mock == LoginTokens(DEV_MOCK_USER_ID, now)
        has_invite == invite_ref_code # None /\ invite_ref_code # Some("")
    IN  /\ calls[c].pc = "idle"
        /\ IF IsDevBypass(config, data)
           THEN /\ calls' = [calls EXCEPT ![c] = LoginDone([call EXCEPT !.user = None], 200, "ok")]
                /\ issued' = issued \cup {mock[1], mock[2]}
           ELSE /\ issued' = issued
                /\ calls' = [calls EXCEPT ![c] =
                      IF checked # "ok" THEN LoginDone([call EXCEPT !.user = None], 400, checked)
                      ELSE IF has_invite THEN [call EXCEPT !.pc = "referrer"]
                      ELSE [call EXCEPT !.pc = AfterReferrer(call)]]
        /\ UNCHANGED <<config, users, now, resp, tg>>

\* get_or_none(ref_code=invite_ref_code), and the self-invite test
LoginFindReferrer(c) ==
    LET call == calls[c]
    IN  /\ call.op = "login" /\ call.pc = "referrer"
        /\ calls' = [calls EXCEPT ![c] =
              [call EXCEPT !.referrer = LoginReferrer(users, call.id, call.invite_ref_code),
                           !.pc = AfterReferrer(call)]]
        /\ UNCHANGED <<config, users, now, issued, resp, tg>>

\* filter(id=user.id).update(profile)
LoginUpdateProfile(c) ==
    LET call == calls[c]
        user == The(call.user)
    IN  /\ call.op = "login" /\ call.pc = "update"
        /\ users' = IF call.id \in DOMAIN users
                    THEN WithRow(users, call.id, UpdateRow(users[call.id], Profile(call.data)))
                    ELSE users
        /\ calls' = [calls EXCEPT ![c] =
              [call EXCEPT !.pc = IF user.ref_code = None \/ user.ref_code = Some("")
                                  THEN "draw" ELSE "link"]]
        /\ UNCHANGED <<config, now, issued, resp, tg>>

\* (mutant) the loop gives up one turn early
LoginDraw_OneShort(c, code) ==
    LET call == calls[c]
        exists == \E i \in DOMAIN users : users[i].ref_code = Some(code)
        turn == [call EXCEPT !.attempts = call.attempts + 1, !.drawn = Some(code)]
    IN  /\ call.op = "login" /\ call.pc = "draw"
        /\ calls' = [calls EXCEPT ![c] =
              IF ~exists
              THEN [turn EXCEPT !.code = Some(code),
                                !.pc = IF call.user = None THEN "create" ELSE "save_code"]
              ELSE IF call.attempts + 1 >= RefCodeAttempts - 1
              THEN LoginDone(turn, 500, "Failed to generate unique ref_code")
              ELSE turn]
        /\ UNCHANGED <<config, users, now, issued, resp, tg>>

\* one turn of create_unique_ref_code's loop: generate_ref_code returns
\* `code`, filter(ref_code=code).exists() is asked
LoginDraw(c, code) ==
    LET call == calls[c]
        exists == \E i \in DOMAIN users : users[i].ref_code = Some(code)
        turn == [call EXCEPT !.attempts = call.attempts + 1, !.drawn = Some(code)]
    IN  /\ call.op = "login" /\ call.pc = "draw"
        /\ calls' = [calls EXCEPT ![c] =
              IF ~exists
              THEN [turn EXCEPT !.code = Some(code),
                                !.pc = IF call.user = None THEN "create" ELSE "save_code"]
              ELSE IF call.attempts + 1 >= RefCodeAttempts
              THEN LoginDone(turn, 500, "Failed to generate unique ref_code")
              ELSE turn]
        /\ UNCHANGED <<config, users, now, issued, resp, tg>>

\* (mutant) id is no primary key: the INSERT replaces a row with the same id
LoginCreate_NoPrimaryKey(c) ==
    LET call == calls[c]
        tokens == LoginTokens(call.id, now)
        row == NewUser(Profile(call.data) @@ [ref_code |-> call.code,
                                              referred_by |-> call.referrer])
        refused == BreaksUnique(users, call.id, [ref_code |-> call.code])
    IN  /\ call.op = "login" /\ call.pc = "create"
        /\ users' = IF refused THEN users ELSE WithRow(users, call.id, row)
        /\ issued' = IF refused THEN issued ELSE issued \cup {tokens[1], tokens[2]}
        /\ calls' = [calls EXCEPT ![c] =
              IF refused THEN LoginDone(call, 500, "IntegrityError")
              ELSE LoginDone(call, 200, "ok")]
        /\ UNCHANGED <<config, now, resp, tg>>

\* User.create(...): the INSERT, refused for an id or a ref_code in use, and
\* the tokens of the reply
LoginCreate(c) ==
    LET call == calls[c]
        tokens == LoginTokens(call.id, now)
        row == NewUser(Profile(call.data) @@ [ref_code |-> call.code,
                                              referred_by |-> call.referrer])
        refused == \/ call.id \in DOMAIN users
                   \/ BreaksUnique(users, call.id, [ref_code |-> call.code])
    IN  /\ call.op = "login" /\ call.pc = "create"
        /\ users' = IF refused THEN users ELSE WithRow(users, call.id, row)
        /\ issued' = IF refused THEN issued ELSE issued \cup {tokens[1], tokens[2]}
        /\ calls' = [calls EXCEPT ![c] =
              IF refused THEN LoginDone(call, 500, "IntegrityError")
              ELSE LoginDone(call, 200, "ok")]
        /\ UNCHANGED <<config, now, resp, tg>>

\* user.ref_code = code; user.save(update_fields=["ref_code"])
LoginSaveCode(c) ==
    LET call == calls[c]
        refused == BreaksUnique(users, call.id, [ref_code |-> call.code])
    IN  /\ call.op = "login" /\ call.pc = "save_code"
        /\ users' = IF refused \/ call.id \notin DOMAIN users THEN users
                    ELSE WithRow(users, call.id,
                                 UpdateRow(users[call.id], [ref_code |-> call.code]))
        /\ calls' = [calls EXCEPT ![c] =
              IF refused THEN LoginDone(call, 500, "IntegrityError")
              ELSE [call EXCEPT !.pc = "link",
                                !.user = Some(UpdateRow(The(call.user),
                                                        [ref_code |-> call.code]))]]
        /\ UNCHANGED <<config, now, issued, resp, tg>>

\* (mutant) a referrer already stored does not stop the link
ShouldLink_Overwrite(user, referrer, id) ==
    /\ referrer # None
    /\ user.license_end_date = None
    /\ referrer # Some(id)

\* not user.referred_by and referrer and not user.license_end_date and
\* referrer.id != user.id, on the row object login holds
ShouldLink(user, referrer, id) ==
    /\ user.referred_by = None
    /\ referrer # None
    /\ user.license_end_date = None
    /\ ~SameAccount(referrer, id)

\* the referrer is saved if it should be, and the tokens of the reply
LoginLink(c) ==
    LET call == calls[c]
        tokens == LoginTokens(call.id, now)
        link == ShouldLink(The(call.user), call.referrer, call.id)
    IN  /\ call.op = "login" /\ call.pc = "link"
        /\ users' = IF link /\ call.id \in DOMAIN users
                    THEN WithRow(users, call.id,
                                 UpdateRow(users[call.id], [referred_by |-> call.referrer]))
                    ELSE users
        /\ issued' = issued \cup {tokens[1], tokens[2]}
        /\ calls' = [calls EXCEPT ![c] =
              LoginDone([call EXCEPT !.linked = IF link THEN call.referrer ELSE None],
                        200, "ok")]
        /\ UNCHANGED <<config, now, resp, tg>>

(***************************************************************************)
(* SpecReferral: two logins in flight.  Accounts 42 (ann) and 7 (bob) have  *)
(* logged in and hold the codes AAAAAAAA and B2B2B2B2; account 9 was       *)
(* inserted by /admin/create-user and has no code, no referrer and no      *)
(* license; 8 has no account.  /admin/create-user may be called with a     *)
(* ref_code at any moment.                                                 *)
(***************************************************************************)
LoginCalls == {1, 2}
ReferralDraws == {"AAAAAAAA", "C3C3C3C3", "D4D4D4D4"}

\* who logs in, and with which invite code
ReferralLogins ==
    {<<9, Some("AAAAAAAA")>>, <<9, Some("B2B2B2B2")>>, <<8, Some("AAAAAAAA")>>,
     <<42, Some("AAAAAAAA")>>, <<7, None>>}

ReferralInit ==
    /\ config = ProdConfig
    /\ users = WithRow(AuthFirstLogins.users, 9, NewUser([username |-> Some(Mike)]))
    /\ now = StartTime
    /\ issued = {LoginTokens(id, StartTime)[k] : id \in AuthIds, k \in {1, 2}}
    /\ resp = NoRequest
    /\ calls = [c \in LoginCalls |-> IdleLogin]
    /\ tg = NoAssertion

ReferralNext ==
    \/ \E c \in LoginCalls, l \in ReferralLogins :
            LoginStart(c, Signed(LoginData(l[1], now, None)), l[2])
    \/ \E c \in LoginCalls : LoginFindReferrer(c)
    \/ \E c \in LoginCalls : LoginUpdateProfile(c)
    \/ \E c \in LoginCalls, code \in ReferralDraws : LoginDraw(c, code)
    \/ \E c \in LoginCalls : LoginCreate(c)
    \/ \E c \in LoginCalls : LoginSaveCode(c)
    \/ \E c \in LoginCalls : LoginLink(c)
    \/ CreateUser(Some(SyncToken), CreateUserIn(9, [ref_code |-> "D4D4D4D4"]))

SpecReferral == ReferralInit /\ [][ReferralNext]_vars

\* C16: no two accounts hold the same referral code, whatever first logins,
\* backfills and /admin/create-user calls interleave and whichever candidate
\* codes they draw.
C16_RefCodesUnique ==
    \A i \in DOMAIN users, j \in DOMAIN users :
        (i # j /\ users[i].ref_code # None) => users[i].ref_code # users[j].ref_code

\* a first login and a backfill drew the same free candidate; one of them
\* stored it, the other was refused by the UNIQUE constraint
C16_Witness ==
    \E c \in DOMAIN calls, d \in DOMAIN calls :
        /\ calls[c].op = "login" /\ calls[d].op = "login"
        /\ calls[c].id = 8 /\ calls[d].id = 9
        /\ calls[c].code # None /\ calls[c].code = calls[d].code
        /\ calls[c].pc = "done" /\ calls[c].http = 200
        /\ calls[d].pc = "done" /\ calls[d].detail = "IntegrityError"
        /\ users[8].ref_code = calls[c].code

\* C17 as stated: a referral code that is not null is never replaced
C17_RefCodeNeverChanges ==
    [][\A id \in DOMAIN users :
            users[id].ref_code # None => users'[id].ref_code = users[id].ref_code]_vars

\* the logins that found a referrer stored when they read the account
LaterLogins ==
    {c \in DOMAIN calls : /\ calls[c].op = "login" /\ calls[c].user # None
                          /\ The(calls[c].user).referred_by # None}

\* C18: a login that finds referred_by set when it reads the account does
\* not write referred_by, whatever invite code it brings; when it has replied,
\* the account still has the referrer it found, unless a login that had read
\* the account earlier has stored another one since.
C18_LaterLoginKeepsReferrer ==
    \A c \in LaterLogins :
        /\ calls[c].linked = None
        /\ (/\ calls[c].pc = "done"
            /\ \A d \in DOMAIN calls \ {c} :
                  \/ calls[d].op # "login" \/ calls[d].id # calls[c].id
                  \/ calls[d].linked = None
                  \/ calls[d].linked = The(calls[c].user).referred_by)
           => users[calls[c].id].referred_by = The(calls[c].user).referred_by

\* account 9, referred by 42, has logged in again with the code of 7
C18_Witness ==
    \E c \in LaterLogins :
        /\ calls[c].id = 9
        /\ The(calls[c].user).referred_by = Some(42)
        /\ calls[c].referrer = Some(7)
        /\ calls[c].pc = "done" /\ calls[c].http = 200
        /\ users[9].referred_by = Some(42)

\* C19 as stated: a referrer, once stored, is never overwritten
C19_ReferrerWrittenOnce ==
    [][\A id \in DOMAIN users :
            users[id].referred_by # None
            => users'[id].referred_by = users[id].referred_by]_vars

\* C20: no account is its own referrer.
C20_NoSelfReferral ==
    \A id \in DOMAIN users : users[id].referred_by # Some(id)

\* account 42 has logged in with its own code as the invite code while
\* account 8 was created with that code as the invite code
C20_Witness ==
    /\ \E c \in DOMAIN calls :
          /\ calls[c].op = "login" /\ calls[c].id = 42
          /\ calls[c].invite_ref_code = users[42].ref_code
          /\ calls[c].pc = "done" /\ calls[c].http = 200
    /\ users[42].referred_by = None
    /\ 8 \in DOMAIN users /\ users[8].referred_by = Some(42)

(***************************************************************************)
(* SpecInternal: the internal sync endpoints alone, in a deployment with    *)
(* and in one without internal.user_sync_token.  Accounts 42 (ann) and 7   *)
(* (bob) have logged in; 9 has no account until /admin/create-user makes   *)
(* it.  One debit is in flight.                                            *)
(***************************************************************************)
NoSyncConfig == [api_url |-> Some(ProdUrl), user_sync_token |-> None]

\* what a caller may send as X-Internal-Token: nothing, an empty value, the
\* secret, "synx", "s" followed by e-acute, and the first characters "eyJ" of
\* the compact form of a bearer token
WrongToken == <<115, 121, 110, 120>>
NonAsciiToken == <<115, 233>>
BearerText == <<101, 121, 74>>
InternalTokens ==
    {None, Some(<<>>), Some(SyncToken), Some(WrongToken), Some(NonAsciiToken),
     Some(BearerText)}

\* a payload that sets every field of CreateUserIn
FullSync ==
    [username |-> Mike, first_name |-> <<"m">>, last_name |-> <<"k">>,
     photo_url |-> <<"p">>, role |-> RoleAdmin, license_end_date |-> StartTime + 1,
     balance |-> 50, ref_code |-> "C3C3C3C3", or_api_key |-> "k0",
     or_api_hash |-> "h0", or_model |-> "m0"]

SyncPayloads ==
    {CreateUserIn(7, given) :
        given \in {<<>>, [role |-> RoleAdmin], [balance |-> 50, or_model |-> "m1"]}}
        \cup {CreateUserIn(9, given) : given \in {<<>>, [ref_code |-> "AAAAAAAA"], FullSync}}

InternalCalls == {1}

InternalInit ==
    /\ config \in {ProdConfig, NoSyncConfig}
    /\ users = AuthFirstLogins.users
    /\ now = StartTime
    /\ issued = {LoginTokens(id, StartTime)[k] : id \in AuthIds, k \in {1, 2}}
    /\ resp = NoRequest
    /\ calls = [c \in InternalCalls |-> IdleCall]
    /\ tg = NoAssertion

InternalNext ==
    \/ \E x \in InternalTokens, data \in SyncPayloads : CreateUser(x, data)
    \/ \E x \in InternalTokens, id \in {7, 8} : InternalUserState(x, id)
    \/ \E x \in InternalTokens, data \in {OpenRouterIn(<<>>), OpenRouterIn([api_key |-> "k1"])} :
            InternalSetOpenRouterSettings(x, 7, data)
    \/ \E c \in InternalCalls, x \in InternalTokens : InternalDebitBalance(c, x, 7, 40)
    \/ \E c \in InternalCalls : DebitUpdate(c)
    \/ \E c \in InternalCalls : DebitReread(c)

SpecInternal == InternalInit /\ [][InternalNext]_vars

InternalOps == {"create_user", "user_state", "internal_set_openrouter"}

\* the internal requests that have been answered: the one handled last and
\* the debit, each with the X-Internal-Token it carried and its status
InternalReplies ==
    (IF resp.op \in InternalOps
     THEN {[x_internal_token |-> resp.req.x_internal_token, status |-> resp.status]}
     ELSE {})
    \cup {[x_internal_token |-> calls[c].x_internal_token, status |-> calls[c].http] :
            c \in {d \in DOMAIN calls : calls[d].op = "debit" /\ calls[d].pc = "done"}}

\* the step answers an internal request with one of `statuses`
AnswersInternal(statuses) ==
    \/ calls' = calls /\ resp'.op \in InternalOps /\ resp'.status \in statuses
    \/ \E c \in DOMAIN calls :
          /\ calls[c].pc = "idle" /\ calls'[c].pc = "done"
          /\ calls'[c].op = "debit" /\ calls'[c].http \in statuses

\* C21 as stated: without a configured secret every internal call answers
\* 503 whatever token it carries; with one, a call whose X-Internal-Token is
\* missing or is not the secret answers 401; a call answered 503 or 401
\* leaves the table of accounts as it was.
C21_GateFailures ==
    /\ [](\A r \in InternalReplies :
            /\ config.user_sync_token = None => r.status = 503
            /\ (config.user_sync_token # None /\ r.x_internal_token # config.user_sync_token)
                  => r.status = 401)
    /\ [][AnswersInternal({401, 503}) => users' = users]_vars

\* the value create-user stores in column k for a supplied field
Supplied(data, k) == IF k \in {"role", "balance"} THEN The(data[k]) ELSE data[k]

\* C23: a create-user call that is answered 200 leaves the account with
\* exactly the supplied non-null fields written: a field that is omitted or
\* null keeps its stored value (its default for a new account), referred_by
\* and every other account are untouched; it reports "created" when no
\* account with that id existed and "updated" otherwise.
C23_PartialUpsert ==
    [][(calls' = calls /\ resp'.op = "create_user" /\ resp'.status = 200) =>
          LET data == resp'.req.data
              id == data.id
              before == IF id \in DOMAIN users THEN users[id] ELSE NewUser(<<>>)
          IN  /\ DOMAIN users' = DOMAIN users \cup {id}
              /\ \A j \in DOMAIN users \ {id} : users'[j] = users[j]
              /\ resp'.detail = IF id \in DOMAIN users THEN "updated" ELSE "created"
              /\ \A k \in CreateUserFields :
                    users'[id][k] = IF data[k] = None THEN before[k] ELSE Supplied(data, k)
              /\ users'[id].referred_by = before.referred_by]_vars

\* account 7, made an administrator and given an api key earlier, is synced
\* with a balance and a model only
C23_Witness ==
    /\ resp.op = "create_user" /\ resp.status = 200 /\ resp.detail = "updated"
    /\ resp.req.data = CreateUserIn(7, [balance |-> 50, or_model |-> "m1"])
    /\ users[7].role = RoleAdmin
    /\ users[7].or_api_key = Some("k1")
    /\ users[7].username = Some(Bob)
    /\ users[7].balance = 50 /\ users[7].or_model = Some("m1")

(***************************************************************************)
(* SpecCredentials: the integration credentials of account 7 (bob), set by  *)
(* the internal endpoint and by bob, or by ann (42, an administrator)      *)
(* acting as bob, through /auth/openrouter-settings.                       *)
(***************************************************************************)
CredentialInputs ==
    {OpenRouterIn(given) :
        given \in {<<>>, [api_key |-> "k1"], [api_hash |-> "h1"], [model |-> "m1"],
                   [api_key |-> "k1", api_hash |-> "h1"], [api_hash |-> "h1", model |-> "m1"],
                   [api_key |-> "k2", model |-> "m2"],
                   [api_key |-> "", api_hash |-> "h2", model |-> "m2"]}}

CredentialHeaders ==
    {None,
     Some([scheme |-> "Bearer", token |-> LoginTokens(7, StartTime)[1]]),
     Some([scheme |-> "Bearer", token |-> CreateImpersonationTokens(7, 42, StartTime)[1]])}

CredentialsInit ==
    /\ config = ProdConfig
    /\ users = LET us == AuthFirstLogins.users
               IN  [i \in DOMAIN us |->
                      IF i = 42 THEN UpdateRow(us[i], [role |-> RoleAdmin]) ELSE us[i]]
    /\ now = StartTime
    /\ issued = {LoginTokens(id, StartTime)[k] : id \in AuthIds, k \in {1, 2}}
                    \cup {CreateImpersonationTokens(7, 42, StartTime)[k] : k \in {1, 2}}
    /\ resp = NoRequest
    /\ calls = NoCalls
    /\ tg = NoAssertion

CredentialsNext ==
    \/ \E x \in {None, Some(SyncToken)}, id \in {7, 8}, data \in CredentialInputs :
            InternalSetOpenRouterSettings(x, id, data)
    \/ \E h \in CredentialHeaders, data \in CredentialInputs : SetOpenRouterSettings(h, data)
    \/ \E h \in CredentialHeaders : GetOpenRouterSettings(h)
    \/ \E x \in {None, Some(SyncToken)}, id \in {7, 8} : InternalUserState(x, id)

SpecCredentials == CredentialsInit /\ [][CredentialsNext]_vars

SetCredentialOps == {"set_openrouter", "internal_set_openrouter"}

\* the account a set-credentials request is about
CredentialTarget(r) ==
    IF r.op = "internal_set_openrouter" THEN r.req.user_id
    ELSE SubjectOf(The(r.req.authorization).token)

\* C24: a set-credentials call, internal or self-service, that is answered
\* 200 changes exactly the credential fields it supplies as non-null, to the
\* supplied values, and leaves the other credential fields, every other
\* field of the account and every other account as they were; a call that
\* supplies no non-null field, and a call that is refused, change nothing.
C24_CredentialsIndependent ==
    [][(calls' = calls /\ resp'.op \in SetCredentialOps) =>
          LET data == resp'.req.data
              id == CredentialTarget(resp')
          IN  /\ resp'.status # 200 => users' = users
              /\ (\A k \in DOMAIN data : data[k] = None) => users' = users
              /\ resp'.status = 200 =>
                    /\ DOMAIN users' = DOMAIN users
                    /\ \A j \in DOMAIN users \ {id} : users'[j] = users[j]
                    /\ \A col \in OpenRouterColumns :
                          users'[id][col] = IF data[SettingOf(col)] = None THEN users[id][col]
                                            ELSE data[SettingOf(col)]
                    /\ \A k \in DOMAIN users[id] \ OpenRouterColumns :
                          users'[id][k] = users[id][k]]_vars

\* ann, acting as bob, has set the model alone; the key and the hash stored
\* by earlier calls are still there
C24_Witness ==
    /\ resp.op = "set_openrouter" /\ resp.status = 200
    /\ IsDelegated(The(resp.req.authorization).token)
    /\ resp.req.data = OpenRouterIn([model |-> "m1"])
    /\ users[7].or_api_key = Some("k2")
    /\ users[7].or_api_hash = Some("h2")
    /\ users[7].or_model = Some("m1")

(***************************************************************************)
(* SpecApi: every route of the service, each called with whatever a client  *)
(* may put in the header the route reads.  Accounts 42 (ann) and 7 (bob)   *)
(* have logged in; /admin/create-user may change their roles.              *)
(***************************************************************************)
\* the internal secret sent as a bearer token: a string that is no JWT
SecretAsBearer ==
    [sub |-> <<>>, real_sub |-> None, impersonated |-> FALSE, exp |-> 0, alg |-> "", key |-> ""]

\* the Authorization headers: none, each access token issued so far, a
\* forged one, and the secret
ApiHeaders ==
    {None} \cup {Some([scheme |-> "Bearer", token |-> t]) :
                    t \in {a \in issued : a.exp = StartTime + ExpireSeconds}
                            \cup ForgedTokens \cup {SecretAsBearer}}

\* the refresh cookies: none, and each refresh token issued so far
ApiCookies ==
    {None} \cup {Some(t) : t \in {r \in issued : r.exp = StartTime + RefreshLifetime}}

\* an internal call without X-Internal-Token, with the secret, and with the
\* text of a bearer token in its place
ApiInternalTokens == {None, Some(SyncToken), Some(BearerText)}

ApiNext ==
    \/ \E data \in AuthLoginInputs : Login(data, None, SameDraws("AAAAAAAA"))
    \/ \E cookie \in ApiCookies : RefreshTokenEndpoint(cookie)
    \/ Logout
    \/ \E h \in ApiHeaders \ {None} : Me(h)
    \/ \E h \in ApiHeaders \ {None} : CallbackWithToken(The(h).token)
    \/ \E h \in ApiHeaders : GetOpenRouterSettings(h)
    \/ \E h \in ApiHeaders : SetOpenRouterSettings(h, OpenRouterIn([model |-> "m1"]))
    \/ \E h \in ApiHeaders : GetBalance(h)
    \/ \E h \in ApiHeaders : GetPartners(h)
    \/ \E h \in ApiHeaders, u \in {Ann, <<"@">> \o Bob} : Impersonate(h, u)
    \/ \E h \in ApiHeaders : StopImpersonate(h)
    \/ \E h \in ApiHeaders : ExtendLicense(h, Ann, 0)
    \/ \E h \in ApiHeaders : AddBalance(h, <<"@">> \o Bob, 0)
    \/ \E role \in {RoleUser, RoleAdmin}, x \in ApiInternalTokens :
            CreateUser(x, CreateUserIn(42, [role |-> role]))
    \/ \E x \in ApiInternalTokens : InternalUserState(x, 7)
    \/ \E x \in ApiInternalTokens :
            InternalSetOpenRouterSettings(x, 7, OpenRouterIn([model |-> "m1"]))
    \/ \E c \in InternalCalls, x \in ApiInternalTokens : InternalDebitBalance(c, x, 7, 40)
    \/ \E c \in InternalCalls : DebitUpdate(c)
    \/ \E c \in InternalCalls : DebitReread(c)

ApiInit ==
    /\ config = ProdConfig
    /\ users = AuthFirstLogins.users
    /\ now = StartTime
    /\ issued = {LoginTokens(id, StartTime)[k] : id \in AuthIds, k \in {1, 2}}
    /\ resp = NoRequest
    /\ calls = [c \in InternalCalls |-> IdleCall]
    /\ tg = NoAssertion

SpecApi == ApiInit /\ [][ApiNext]_vars

\* C27: the role of an account changes only in a step in which
\* /admin/create-user, called with the configured secret, writes the role its
\* body supplies for that account; no step of login, refresh, logout,
\* /auth/me, callback, the credential routes, the balance read, partners,
\* start and stop impersonate, license and balance changes a role.
C27_RoleOnlyByInternalSync ==
    [][\A id \in DOMAIN users :
          (id \in DOMAIN users' /\ users'[id].role # users[id].role)
          => /\ calls' = calls
             /\ resp'.op = "create_user" /\ resp'.status = 200
             /\ resp'.req.x_internal_token = config.user_sync_token
             /\ resp'.req.data.id = id
             /\ resp'.req.data.role = Some(users'[id].role)]_vars

\* ann, made an administrator by /admin/create-user, has set bob's model
\* while acting as bob, and bob is no administrator
C27_Witness ==
    /\ resp.op = "set_openrouter" /\ resp.status = 200
    /\ IsDelegated(The(resp.req.authorization).token)
    /\ users[42].role = RoleAdmin
    /\ users[7].role = RoleUser
    /\ users[7].or_model = Some("m1")

BearerOps == {"me", "get_openrouter", "set_openrouter", "get_balance", "partners"}

\* the debits that got past the token check
DebitsAdmitted ==
    {c \in DOMAIN calls : /\ calls[c].op = "debit"
                          /\ ~(calls[c].pc = "done" /\ calls[c].http \in {401, 500, 503})}

\* C22: an internal call (create-or-update, user-state, set credentials,
\* debit) gets past its gate only when its X-Internal-Token is the configured
\* secret, and a call that carries no token, or the text of a bearer token in
\* its place, is answered 401 and changes nothing; a bearer-gated or
\* admin-gated call is answered 200 only when its Authorization header
\* carries a token the service signed whose subject has an account (for the
\* admin-gated ones: whose real subject is an administrator), and a call that
\* carries the internal secret there is answered 401 and changes nothing.
C22_GatesNotInterchangeable ==
    /\ [](/\ \A r \in InternalReplies :
                IF r.x_internal_token = config.user_sync_token
                THEN r.status \notin {401, 503}
                ELSE r.status = 401
          /\ \A c \in DebitsAdmitted : calls[c].x_internal_token = config.user_sync_token
          /\ (resp.op \in BearerOps \cup AdminOps) =>
                IF resp.req.authorization = None THEN resp.status = 422
                ELSE LET token == The(resp.req.authorization).token
                     IN  /\ token = SecretAsBearer => resp.status = 401
                         /\ resp.status = 200 =>
                               /\ token \in issued /\ Genuine(token)
                               /\ SubjectOf(token) \in DOMAIN users
                               /\ resp.op \in AdminOps => IsAdminNow(ActorOf(token)))
    /\ [][/\ AnswersInternal({401}) => users' = users /\ issued' = issued
          /\ (calls' = calls /\ resp'.op \in BearerOps \cup AdminOps /\ resp'.status # 200)
                => users' = users /\ issued' = issued]_vars

\* while ann is an administrator, a debit that carried the text of a bearer
\* token as X-Internal-Token has been answered 401, and so has an admin-gated
\* call that carried the internal secret as its bearer token
C22_Witness ==
    /\ users[42].role = RoleAdmin
    /\ \E c \in DOMAIN calls :
          /\ calls[c].op = "debit" /\ calls[c].pc = "done"
          /\ calls[c].x_internal_token = Some(BearerText)
          /\ calls[c].http = 401
    /\ resp.op \in AdminOps
    /\ resp.req.authorization = Some([scheme |-> "Bearer", token |-> SecretAsBearer])
    /\ resp.status = 401

(***************************************************************************)
(* SpecBackfill: what a login leaves of the account's referral code and    *)
(* referrer.  Account 42 (ann) has logged in and holds "AAAAAAAA"; the      *)
(* internal sync creates or updates account 9 (without a code, with a code *)
(* of its own choosing, with a license that runs out between the two       *)
(* instants); accounts 8 and 9 and, in a local-development deployment, the *)
(* mock identity log in, with and without an invite code.  Every handler   *)
(* runs as one step.                                                       *)
(***************************************************************************)
\* generate_ref_code(length=8)
RefCodeLength == 8

\* a code the internal sync supplies: shorter than the allocator's, and
\* within the column's VARCHAR(8)
ShortCode == "ABC"

\* len() of the codes that occur here
CodeLen(code) ==
    CASE code = "" -> 0
      [] code = ShortCode -> 3
      [] OTHER -> RefCodeLength

LicenseSeconds == 5

BackfillInstants == {StartTime, StartTime + LicenseSeconds + 1}

BackfillPayloads ==
    {CreateUserIn(9, given) :
        given \in {<<>>, [ref_code |-> ShortCode],
                   [license_end_date |-> StartTime + LicenseSeconds]}}

BackfillLogins ==
    {Signed(LoginData(id, now, None)) : id \in {8, 9}} \cup {MockLogin}

BackfillInvites == {None, Some("AAAAAAAA"), Some(ShortCode), Some("ZZZZZZZZ")}

\* what generate_ref_code returns: a free code at once, or a taken one first
BackfillDraws ==
    {SameDraws("B2B2B2B2"), [SameDraws("C3C3C3C3") EXCEPT ![1] = "AAAAAAAA"]}

BackfillInit ==
    /\ config \in {ProdConfig, LocalConfig}
    /\ users = LoginUpsert(EmptyTable, Signed(LoginData(42, StartTime, Some(Ann))),
                           None, SameDraws("AAAAAAAA")).users
    /\ now = StartTime
    /\ issued = {}
    /\ resp = NoRequest
    /\ calls = NoCalls
    /\ tg = NoAssertion

BackfillNext ==
    \/ \E data \in BackfillPayloads : CreateUser(Some(SyncToken), data)
    \/ \E data \in BackfillLogins, invite \in BackfillInvites, draws \in BackfillDraws :
          Login(data, invite, draws)
    \/ \E t \in BackfillInstants : Tick(t)

SpecBackfill == BackfillInit /\ [][BackfillNext]_vars

\* the step is a login that was answered 200
LoginAnswered == resp'.op = "login" /\ now' = now /\ resp'.status = 200

\* C28: after every successful login the logged-in account exists and has a
\* non-null 8-character referral code; a first login without an invite
\* code leaves referred_by null.
C28_CodeAfterLogin ==
    [][LoginAnswered =>
          LET id == The(resp'.req.data.id)
          IN  /\ id \in DOMAIN users'
              /\ users'[id].ref_code # None
              /\ CodeLen(The(users'[id].ref_code)) = RefCodeLength
              /\ (id \notin DOMAIN users /\ resp'.req.invite_ref_code = None)
                    => users'[id].referred_by = None]_vars

\* the account has a license that has not run out at t (has_license of /auth/me)
ActiveLicense(row, t) ==
    row.license_end_date # None /\ The(row.license_end_date) > t

\* C29: on login of an existing account with a valid, non-self invite code
\* the referrer link is backfilled if and only if the account had no referrer
\* and no active license, an expiry in the past counting as no license.
C29_LinkBackfilled ==
    [][LoginAnswered =>
          LET id == The(resp'.req.data.id)
              invite == resp'.req.invite_ref_code
              referrer == IF invite = None THEN None ELSE GetByRefCode(users, The(invite))
          IN  (id \in DOMAIN users /\ referrer # None /\ referrer # Some(id))
              => ((users[id].referred_by = None /\ users'[id].referred_by = referrer)
                    <=> (users[id].referred_by = None /\ ~ActiveLicense(users[id], now)))]_vars

(***************************************************************************)
(* SpecRevocation: tokens that outlive logout and rotation, in a           *)
(* local-development deployment.  As in SpecSession, accounts 42 (ann, an  *)
(* administrator) and 7 (bob) have logged in, ann has started to           *)
(* impersonate bob and the mock login has been used, all at StartTime.     *)
(* The cookie of a refresh is any token issued so far, or none; the client *)
(* logs out; the internal sync takes ann's administrator role away and     *)
(* gives it back; the clock reaches the last instant of the first refresh  *)
(* tokens and passes it.                                                   *)
(***************************************************************************)
RevocationInstants ==
    {StartTime + d : d \in {0, ExpireSeconds + 1, RefreshLifetime, RefreshLifetime + 1}}

RevocationCalls == {1}

RevocationInit ==
    /\ config = LocalConfig
    /\ users = LET us == AuthFirstLogins.users
               IN  [i \in DOMAIN us |->
                      IF i = 42 THEN UpdateRow(us[i], [role |-> RoleAdmin]) ELSE us[i]]
    /\ now = StartTime
    /\ issued = SessionFirstTokens
    /\ resp = NoRequest
    /\ calls = [c \in RevocationCalls |-> IdleCall]
    /\ tg = NoAssertion

\* logout as request c; calls[c] keeps that it was answered (for the
\* properties: the service keeps nothing)
LogoutCall(c) ==
    /\ calls[c].pc = "idle"
    /\ calls' = [calls EXCEPT ![c] = Finished([IdleCall EXCEPT !.op = "logout"], 200, "ok", None)]
    /\ resp' = Response("logout", <<>>, 200, "ok", None, None, TRUE)
    /\ UNCHANGED <<config, users, now, issued, tg>>

RevocationNext ==
    \/ \E cookie \in {None} \cup {Some(t) : t \in issued} : RefreshTokenEndpoint(cookie)
    \/ \E c \in RevocationCalls : LogoutCall(c)
    \/ \E role \in {RoleUser, RoleAdmin} :
          CreateUser(Some(SyncToken), CreateUserIn(42, [role |-> role]))
    \/ \E t \in RevocationInstants : Tick(t)

SpecRevocation == RevocationInit /\ [][RevocationNext]_vars

\* the step is a refresh that presented an issued token which has not expired
RefreshOfLiveToken ==
    /\ resp'.op = "refresh" /\ now' = now /\ users' = users
    /\ resp'.req.refresh_token # None
    /\ The(resp'.req.refresh_token) \in issued
    /\ now <= The(resp'.req.refresh_token).exp

\* the refresh was answered with a fresh pair that carries the token's claims
RefreshedAs(token) ==
    /\ resp'.status = 200
    /\ resp'.access # None /\ resp'.set_cookie # None
    /\ \A new \in resp'.access \cup resp'.set_cookie :
          /\ SameClaims(new, token)
          /\ new \in issued'

\* the token has more time left than an access token is ever given, so
\* create_refresh_token made it
OfRefreshLifetime(token) == token.exp > now + ExpireSeconds

\* C30 as stated: whatever went before, a refresh that presents a refresh
\* token issued earlier and not yet expired is answered with tokens for the
\* same subject as long as the subject's account exists.
C30_Original ==
    [][RefreshOfLiveToken =>
          LET token == The(resp'.req.refresh_token)
          IN  (OfRefreshLifetime(token) /\ SubjectHasAccount(token))
              => RefreshedAs(token)]_vars

\* C30: there is no server-side revocation.  A logout changes neither the
\* accounts nor what has been issued.  Whatever went before (logouts,
\* rotations, earlier uses of the same token), a refresh that presents an
\* issued, unexpired token is answered with a fresh pair for the same
\* subject exactly when the subject's account exists and, for a delegated
\* token, the real subject is still an administrator; it is refused
\* otherwise, and a refusal issues nothing.
C30_NoRevocation ==
    /\ [][(resp'.op = "logout" /\ now' = now)
             => users' = users /\ issued' = issued /\ resp'.cleared]_vars
    /\ [][RefreshOfLiveToken =>
             LET token == The(resp'.req.refresh_token)
             IN  IF /\ SubjectHasAccount(token)
                    /\ IsDelegated(token) => IsAdminNow(RealSubjectOf(token))
                 THEN RefreshedAs(token)
                 ELSE resp'.status = 401 /\ issued' = issued]_vars

\* ann's first refresh cookie is accepted at the last instant of its life,
\* after a logout was answered and after the same cookie had been rotated
\* at an earlier instant (the pair minted then is among the issued tokens,
\* and at that instant no other unexpired token named ann)
C30_Witness ==
    /\ \E c \in DOMAIN calls : calls[c].op = "logout" /\ calls[c].pc = "done"
    /\ LoginTokens(42, StartTime + ExpireSeconds + 1)[2] \in issued
    /\ resp.op = "refresh"
    /\ resp.req.refresh_token = Some(LoginTokens(42, StartTime)[2])
    /\ resp.req.at = StartTime + RefreshLifetime
    /\ resp.status = 200
    /\ resp.set_cookie = Some(LoginTokens(42, StartTime + RefreshLifetime)[2])

(***************************************************************************)
(* SpecIdentity: who a bearer request is answered for, in a                *)
(* local-development deployment.  The tokens are those of SpecSession      *)
(* (ann's and the mock identity's login pairs, the pair of ann acting as   *)
(* bob); ann holds 500 and bob 300.  /auth/me, /auth/balance and the read  *)
(* of /auth/openrouter-settings are called without a header, with another  *)
(* scheme, with each of the tokens and with altered ones, before and after *)
(* the access tokens expire.                                               *)
(***************************************************************************)
IdentityInstants == {StartTime + d : d \in {0, ExpireSeconds, ExpireSeconds + 1}}

IdentityHeaders ==
    {None, Some([scheme |-> "Basic", token |-> LoginTokens(42, StartTime)[2]])}
        \cup {Some([scheme |-> "Bearer", token |-> t]) : t \in SessionTokens}

IdentityInit ==
    /\ config = LocalConfig
    /\ users = LET us == AuthFirstLogins.users
               IN  [i \in DOMAIN us |->
                      IF i = 42 THEN UpdateRow(us[i], [role |-> RoleAdmin, balance |-> 500])
                      ELSE UpdateRow(us[i], [balance |-> 300])]
    /\ now = StartTime
    /\ issued = SessionFirstTokens
    /\ resp = NoRequest
    /\ calls = NoCalls
    /\ tg = NoAssertion

IdentityNext ==
    \/ \E h \in IdentityHeaders : Me(h)
    \/ \E h \in IdentityHeaders : GetBalance(h)
    \/ \E h \in IdentityHeaders : GetOpenRouterSettings(h)
    \/ \E t \in IdentityInstants : Tick(t)

SpecIdentity == IdentityInit /\ [][IdentityNext]_vars

IdentityOps == {"me", "get_balance", "get_openrouter"}

\* the reply is for account id: /auth/me names it, /auth/balance gives its balance
AnsweredFor(id) ==
    /\ resp'.status = 200
    /\ resp'.op = "me" =>
          /\ The(resp'.body).id = id
          /\ The(resp'.body).balance = users[id].balance
    /\ resp'.op = "get_balance" => The(resp'.body).balance_kopecks = users[id].balance

\* C31: identity resolution answers 401 when the authorization header is
\* missing, does not use the Bearer scheme or carries a token that does not
\* decode, 404 when the token's subject has no account, and otherwise
\* answers for the account of the plain subject (for a delegated token the
\* impersonated account).
C31_IdentityResolution ==
    [][(resp'.op \in IdentityOps /\ now' = now) =>
          LET h == resp'.req.authorization
          IN  IF h = None THEN resp'.status = 401
              ELSE IF The(h).scheme # "Bearer" THEN resp'.status = 401
              ELSE IF DecodeToken(The(h).token, now).status # 200 THEN resp'.status = 401
              ELSE IF ~SubjectHasAccount(The(h).token) THEN resp'.status = 404
              ELSE AnsweredFor(SubjectOf(The(h).token))]_vars

(***************************************************************************)
(* SpecReturn: the way back from an impersonation.  Ann (42, an            *)
(* administrator) is acting as bob (7): the only tokens issued so far are  *)
(* the delegated pair.  Stop-impersonate and refresh are called with any   *)
(* token issued so far; the internal sync takes ann's role away and gives  *)
(* it back; the clock moves on once.                                       *)
(***************************************************************************)
ReturnInstants == {StartTime, StartTime + 1}

ReturnHeaders == {None} \cup {Some([scheme |-> "Bearer", token |-> t]) : t \in issued}

ReturnInit ==
    /\ config = ProdConfig
    /\ users = LET us == AuthFirstLogins.users
               IN  [i \in DOMAIN us |->
                      IF i = 42 THEN UpdateRow(us[i], [role |-> RoleAdmin]) ELSE us[i]]
    /\ now = StartTime
    /\ issued = {CreateImpersonationTokens(7, 42, StartTime)[k] : k \in {1, 2}}
    /\ resp = NoRequest
    /\ calls = NoCalls
    /\ tg = NoAssertion

ReturnNext ==
    \/ \E h \in ReturnHeaders : StopImpersonate(h)
    \/ \E cookie \in {None} \cup {Some(t) : t \in issued} : RefreshTokenEndpoint(cookie)
    \/ \E role \in {RoleUser, RoleAdmin} :
          CreateUser(Some(SyncToken), CreateUserIn(42, [role |-> role]))
    \/ \E t \in ReturnInstants : Tick(t)

SpecReturn == ReturnInit /\ [][ReturnNext]_vars

\* token carries no delegation and names account id
PlainFor(token, id) ==
    /\ token.sub = IntToStr(id)
    /\ token.real_sub = None
    /\ ~token.impersonated

\* C32: stop-impersonate called with a delegated token (subject T, real
\* subject A) that decodes, A being an administrator, is answered 200 with a
\* refresh cookie that is plain and whose subject is A, and with no access
\* token; a refresh that presents a plain, unexpired cookie the service
\* issued for A is answered 200 with an access token and a cookie whose
\* subject is A and which carry no delegation marker.
C32_StopReturnsToAdmin ==
    /\ [][(resp'.op = "stop_impersonate" /\ now' = now /\ users' = users
             /\ resp'.req.authorization # None) =>
             LET token == The(resp'.req.authorization).token
             IN  (IsDelegated(token) /\ DecodeToken(token, now).status = 200
                    /\ IsAdminNow(RealSubjectOf(token)))
                 => /\ resp'.status = 200
                    /\ resp'.access = None
                    /\ resp'.set_cookie # None
                    /\ PlainFor(The(resp'.set_cookie), RealSubjectOf(token))
                    /\ The(resp'.set_cookie) \in issued']_vars
    /\ [][(resp'.op = "refresh" /\ now' = now /\ users' = users
             /\ resp'.req.refresh_token # None) =>
             LET cookie == The(resp'.req.refresh_token)
             IN  (cookie \in issued /\ ~IsDelegated(cookie) /\ now <= cookie.exp)
                 => /\ resp'.status = 200
                    /\ resp'.access # None /\ resp'.set_cookie # None
                    /\ \A new \in resp'.access \cup resp'.set_cookie :
                          PlainFor(new, SubjectOf(cookie))]_vars

\* the cookie stop-impersonate set at StartTime for ann (no plain token
\* existed before it) has been refreshed after the clock moved on: the
\* access token is ann's own
C32_Witness ==
    /\ resp.op = "refresh"
    /\ resp.req.refresh_token = Some(CreateRefreshToken(PlainClaims(42), StartTime))
    /\ resp.req.at = StartTime + 1
    /\ resp.status = 200
    /\ resp.access = Some(CreateAccessToken(PlainClaims(42), StartTime + 1))

(***************************************************************************)
(* SpecAllocation: first logins in flight.  Accounts 42 (ann) and 7 (bob)  *)
(* hold the codes AAAAAAAA and B2B2B2B2, account 9 was inserted by         *)
(* /admin/create-user and has no code, 8 has no account.  Two logins, each *)
(* of 8 or of 9, run one database statement at a time; generate_ref_code   *)
(* returns a code that is taken or one of two that are free.               *)
(***************************************************************************)
AllocationDraws == {"AAAAAAAA", "C3C3C3C3", "D4D4D4D4"}

AllocationLogins == {<<8, None>>, <<8, Some("AAAAAAAA")>>, <<9, None>>}

AllocationNext ==
    \/ \E c \in LoginCalls, l \in AllocationLogins :
            LoginStart(c, Signed(LoginData(l[1], now, None)), l[2])
    \/ \E c \in LoginCalls : LoginFindReferrer(c)
    \/ \E c \in LoginCalls : LoginUpdateProfile(c)
    \/ \E c \in LoginCalls, code \in AllocationDraws : LoginDraw(c, code)
    \/ \E c \in LoginCalls : LoginCreate(c)
    \/ \E c \in LoginCalls : LoginSaveCode(c)
    \/ \E c \in LoginCalls : LoginLink(c)

SpecAllocation == ReferralInit /\ [][AllocationNext]_vars

\* login c ended in create_unique_ref_code's RuntimeError
AllocationFailed(call) ==
    /\ call.pc = "done"
    /\ call.http = 500
    /\ call.detail = "Failed to generate unique ref_code"

\* some account holds `code`
CodeTaken(code) == \E i \in DOMAIN users : users[i].ref_code = Some(code)

\* C33: the allocation draws at most 10 candidates.  Each turn asks whether
\* an account holds the candidate at that moment and writes nothing: a
\* candidate no account holds is returned at once; a candidate that is taken
\* leads to the next turn, or, when it was the 10th, to the failure.  So the
\* allocation fails exactly after 10 candidates that were all taken, and a
\* first login that has not been answered 200 has left the accounts as they
\* were.
C33_AllocationBounded ==
    /\ [](\A c \in DOMAIN calls :
             /\ calls[c].attempts <= RefCodeAttempts
             /\ AllocationFailed(calls[c]) => calls[c].attempts = RefCodeAttempts)
    /\ [][\A c \in DOMAIN calls :
             /\ (calls[c].pc = "draw" /\ calls'[c] # calls[c]) =>
                   /\ users' = users
                   /\ calls'[c].attempts = calls[c].attempts + 1
                   /\ IF ~CodeTaken(The(calls'[c].drawn))
                      THEN /\ calls'[c].code = calls'[c].drawn
                           /\ calls'[c].pc \in {"create", "save_code"}
                      ELSE /\ calls'[c].code = None
                           /\ IF calls'[c].attempts = RefCodeAttempts
                              THEN AllocationFailed(calls'[c])
                              ELSE calls'[c].pc = "draw"
             /\ (calls'[c] # calls[c] /\ calls'[c].user = None /\ calls'[c].http # 200)
                   => users' = users]_vars

\* a first login of 8 has failed after 10 candidates, and 8 has no account
C33_Witness ==
    \E c \in DOMAIN calls :
        /\ AllocationFailed(calls[c])
        /\ calls[c].id = 8
        /\ calls[c].user = None
        /\ calls[c].attempts = RefCodeAttempts
        /\ 8 \notin DOMAIN users

\* two logins that both found no account for the same id
RacingFirstLogins ==
    {pair \in (DOMAIN calls) \X (DOMAIN calls) :
        /\ pair[1] # pair[2]
        /\ calls[pair[1]].op = "login" /\ calls[pair[2]].op = "login"
        /\ calls[pair[1]].id = calls[pair[2]].id
        /\ calls[pair[1]].user = None /\ calls[pair[2]].user = None}

\* login c was answered 200
Succeeded(call) == call.pc = "done" /\ call.http = 200

\* C34: of two first logins of the same id, running concurrently, at most one
\* is answered 200 and the other one's INSERT is refused; when both have been
\* answered and not both have failed to allocate a code, exactly one was
\* answered 200 and the account exists, once, with the code that login drew.
\* Once the account exists, no step of either login replaces its code.
C34_OneAccountPerId ==
    /\ [](\A pair \in RacingFirstLogins :
             LET a == calls[pair[1]]
                 b == calls[pair[2]]
             IN  /\ ~(Succeeded(a) /\ Succeeded(b))
                 /\ Succeeded(a) =>
                       /\ a.id \in DOMAIN users
                       /\ users[a.id].ref_code = a.code
                       /\ a.code # None
                       /\ b.pc = "done" => b.http = 500
                 /\ (a.pc = "done" /\ b.pc = "done"
                       /\ ~(AllocationFailed(a) /\ AllocationFailed(b)))
                       => Succeeded(a) \/ Succeeded(b))
    /\ [][\A pair \in RacingFirstLogins :
             LET id == calls[pair[1]].id
             IN  id \in DOMAIN users
                 => id \in DOMAIN users' /\ users'[id].ref_code = users[id].ref_code]_vars

\* both first logins of 8 drew a free code; one created the account and the
\* other was refused by the primary key
C34_Witness ==
    \E pair \in RacingFirstLogins :
        LET a == calls[pair[1]]
            b == calls[pair[2]]
        IN  /\ a.id = 8
            /\ Succeeded(a)
            /\ b.pc = "done" /\ b.http = 500 /\ b.detail = "IntegrityError"
            /\ b.code # None /\ b.code # a.code
            /\ users[8].ref_code = a.code

(***************************************************************************)
(* SpecResync: what a login writes to an account that exists.  Ann (42) is *)
(* an administrator with a balance, a license, integration credentials, a  *)
(* first name and a photo; bob (7) has the defaults.  Both log in with     *)
(* payloads whose username and first name are null, the stored value or   *)
(* another one, with and without ann's invite code; the internal sync      *)
(* changes bob's role and balance.                                         *)
(***************************************************************************)
ProfileFields == {"username", "first_name", "last_name", "photo_url"}
KeptFields == {"role", "balance", "license_end_date"} \cup OpenRouterColumns

ResyncInit ==
    /\ config = ProdConfig
    /\ users = LET us == AuthFirstLogins.users
               IN  [i \in DOMAIN us |->
                      IF i = 42
                      THEN UpdateRow(us[i], [role |-> RoleAdmin, balance |-> 500,
                                             license_end_date |-> Some(StartTime + 100),
                                             or_api_key |-> Some("k1"), or_model |-> Some("m1"),
                                             first_name |-> Some(<<"A">>),
                                             photo_url |-> Some(<<"p">>)])
                      ELSE us[i]]
    /\ now = StartTime
    /\ issued = {}
    /\ resp = NoRequest
    /\ calls = NoCalls
    /\ tg = NoAssertion

ResyncLogins ==
    {Signed([LoginData(id, now - age, username) EXCEPT !.first_name = first_name]) :
        id \in {42, 7}, age \in {0, MaxAuthAge + 1},
        username \in {None, Some(Ann), Some(Mike)},
        first_name \in {None, Some(<<"A">>), Some(<<"Z">>)}}

ResyncNext ==
    \/ \E data \in ResyncLogins, invite \in {None, Some("AAAAAAAA")} :
          Login(data, invite, SameDraws("C3C3C3C3"))
    \/ \E given \in {[role |-> RoleAdmin], [balance |-> 50]} :
          CreateUser(Some(SyncToken), CreateUserIn(7, given))

SpecResync == ResyncInit /\ [][ResyncNext]_vars

\* C35: a login of an existing account that is answered 200 leaves username,
\* first name, last name and photo equal to the payload's, null included,
\* leaves the account's role, balance, license expiry and integration
\* credentials as they were, and leaves the other accounts alone.
C35_LoginResyncsProfile ==
    [][(resp'.op = "login" /\ resp'.status = 200 /\ resp'.req.data.id # None) =>
          LET id == The(resp'.req.data.id)
          IN  id \in DOMAIN users =>
                /\ DOMAIN users' = DOMAIN users
                /\ \A k \in ProfileFields : users'[id][k] = resp'.req.data[k]
                /\ \A k \in KeptFields : users'[id][k] = users[id][k]
                /\ \A other \in DOMAIN users \ {id} : users'[other] = users[other]]_vars

\* ann has logged in with a payload without username, first name and photo:
\* the stored values are gone, her role, balance, license and credentials
\* are not
C35_Witness ==
    /\ resp.op = "login" /\ resp.status = 200
    /\ resp.req.data.id = Some(42)
    /\ resp.req.data.username = None /\ resp.req.data.first_name = None
    /\ users[42].username = None
    /\ users[42].first_name = None
    /\ users[42].photo_url = None
    /\ users[42].role = RoleAdmin
    /\ users[42].balance = 500
    /\ users[42].license_end_date = Some(StartTime + 100)
    /\ users[42].or_api_key = Some("k1")

(***************************************************************************)
(* SpecDelegation: what can be made of a delegated pair.  As in SpecReturn *)
(* ann (42, an administrator) is acting as bob (7) and the delegated pair  *)
(* is all that has been issued; nobody logs in.  Refresh, stop-impersonate,*)
(* start-impersonate, /auth/me and the callback are called with any token  *)
(* issued so far.                                                          *)
(***************************************************************************)
DelegationNext ==
    \/ \E h \in ReturnHeaders : StopImpersonate(h)
    \/ \E h \in ReturnHeaders : Impersonate(h, Bob)
    \/ \E h \in ReturnHeaders \ {None} : Me(h)
    \/ \E cookie \in {None} \cup {Some(t) : t \in issued} : RefreshTokenEndpoint(cookie)
    \/ \E t \in issued : CallbackWithToken(t)
    \/ Logout
    \/ \E t \in ReturnInstants : Tick(t)

SpecDelegation == ReturnInit /\ [][DelegationNext]_vars

\* the accounts somebody is acting as: the subjects of the delegated tokens
ActedAs == {t.sub : t \in {d \in issued : IsDelegated(d)}}

LoginSubjects == UNION {StrToInt(token.sub) : token \in RespTokens}

C38_ReplyMatchesDecision ==
    \A c \in DebitsAnswered :
        LET call == calls[c]
        IN  /\ call.status = "insufficient_funds" => The(call.balance) < call.amount
            /\ call.status = "ok" => call.balance = Some(The(call.seen) - call.amount)

====
